---- MODULE Spec2Model ----
(***************************************************************************)
(* Verification model of the pair-trading backtester:                      *)
(*   ptdata.validation.lookahead.PointInTimeDataFrame  (point-in-time view) *)
(*   ptengine.core.types        (Position, PairPosition, Trade, signals)    *)
(*   ptengine.portfolio.portfolio.Portfolio                                 *)
(*   ptengine.commission.models                                             *)
(*   ptengine.execution.simple.ClosePriceExecution                          *)
(*   ptengine.backtest.runner.BacktestRunner                                *)
(*                                                                         *)
(* Dates are day numbers.  Python floats are modelled as exact rationals   *)
(* <<n, d>> in lowest terms with d > 0, so that sums, products, quotients   *)
(* and comparisons are computed as the code computes them, up to float     *)
(* rounding.                                                               *)
(***************************************************************************)
EXTENDS Integers, Sequences, FiniteSets, TLC

\* ------------------------------------------------------------------------
\* Bounds of the model
\* ------------------------------------------------------------------------
\* Calendar: rows are dated 1..MaxDate.
MaxDate == 4
\* Number of API calls explored on a bare Portfolio.
MaxOps == 2
\* Number of bars of one run on which the strategy returns a signal.
MaxSignals == 2

Dates == 1..MaxDate

\* The value None of Python where a string is expected.
None == "None"
\* An optional value is <<>> (None) or <<v>>.
Nothing == <<>>
Some(v) == <<v>>

\* ------------------------------------------------------------------------
\* float arithmetic (exact rationals)
\* ------------------------------------------------------------------------
IAbs(i) == IF i < 0 THEN -i ELSE i

RECURSIVE Gcd(_, _)
Gcd(a, b) == IF b = 0 THEN a ELSE Gcd(b, a % b)

\* the float n/d
Q(n, d) ==
    LET s == IF d < 0 THEN -1 ELSE 1
        g == Gcd(IAbs(n), IAbs(d))
    IN  <<(s * n) \div g, (s * d) \div g>>

\* float(i)
Float(i) == <<i, 1>>

Zero == Float(0)

RAdd(x, y) == Q(x[1] * y[2] + y[1] * x[2], x[2] * y[2])
RNeg(x) == <<-x[1], x[2]>>
RSub(x, y) == RAdd(x, RNeg(y))
RMul(x, y) == Q(x[1] * y[1], x[2] * y[2])
\* x / y, for y # 0
RDiv(x, y) == Q(x[1] * y[2], x[2] * y[1])
RAbs(x) == <<IAbs(x[1]), x[2]>>
RLt(x, y) == x[1] * y[2] < y[1] * x[2]
RLe(x, y) == x[1] * y[2] <= y[1] * x[2]
RGt(x, y) == RLt(y, x)
RGe(x, y) == RLe(y, x)
RMax(x, y) == IF RLt(x, y) THEN y ELSE x
RMin(x, y) == IF RLt(y, x) THEN y ELSE x

\* ------------------------------------------------------------------------
\* The price store: a table of rows (symbol, date, close, adj_close)
\* ------------------------------------------------------------------------
Symbols == {"A", "B"}

\* str.upper() on the symbols and symbol arguments of the model
Upper(s) == IF s = "a" THEN "A" ELSE IF s = "b" THEN "B" ELSE s

Row(s, d, c, a) == [symbol |-> s, date |-> d, close |-> c, adj_close |-> a]

\* Price paths of the model's tables (whole dollars).
PathFlat == [d \in Dates |-> 2]
PathUp == [d \in Dates |-> IF d <= 1 THEN 1 ELSE IF d = 2 THEN 2 ELSE 4]
PathSaw == [d \in Dates |-> IF d % 2 = 1 THEN 1 ELSE 2]

\* rows of one symbol over the dates lo..hi (ascending); adj_close follows the
\* path and close is one dollar above it, so that the two columns differ
RECURSIVE SymbolRows(_, _, _, _)
SymbolRows(s, path, lo, hi) ==
    IF lo > hi THEN <<>>
    ELSE <<Row(s, lo, path[lo] + 1, path[lo])>> \o SymbolRows(s, path, lo + 1, hi)

\* rows of one date for both symbols
DateRows(pa, pb, d) ==
    <<Row("A", d, pa[d] + 1, pa[d]), Row("B", d, pb[d] + 1, pb[d])>>

RECURSIVE DateMajor(_, _, _, _)
DateMajor(pa, pb, lo, hi) ==
    IF lo > hi THEN <<>>
    ELSE DateRows(pa, pb, lo) \o DateMajor(pa, pb, lo + 1, hi)

\* layout of the providers and the cache: sorted by (symbol, date)
SymbolMajor(pa, pb, lo, hi) ==
    SymbolRows("A", pa, lo, hi) \o SymbolRows("B", pb, lo, hi)

\* the table without the rows of symbol s on date d
DropRow(t, s, d) == SelectSeq(t, LAMBDA r : ~(r.symbol = s /\ r.date = d))

\* the table without any row of date d
DropDate(t, d) == SelectSeq(t, LAMBDA r : r.date # d)

Tables ==
    { SymbolMajor(PathUp, PathFlat, 1, MaxDate),
      DateMajor(PathSaw, PathUp, 1, MaxDate),
      DropRow(SymbolMajor(PathUp, PathSaw, 1, MaxDate), "B", 3),
      DropDate(DateMajor(PathFlat, PathSaw, 1, MaxDate), 3),
      SymbolMajor(PathFlat, PathFlat, 3, MaxDate),
      <<>> }

\* ------------------------------------------------------------------------
\* PointInTimeDataFrame
\* ------------------------------------------------------------------------
\* __init__: the view keeps its own copy of the table and the reference date
PointInTimeDataFrame(df, reference_date) ==
    [df |-> df, reference_date |-> reference_date]

get_data_nomask(p) == p.df

\* get_data: rows with date <= reference_date, in table order
get_data(p) == SelectSeq(p.df, LAMBDA r : r.date <= p.reference_date)

\* for_symbol
for_symbol(p, symbol) ==
    SelectSeq(get_data(p), LAMBDA r : r.symbol = Upper(symbol))

SeqRange(s) == {s[i] : i \in 1..Len(s)}

MaxOf(S) == CHOOSE x \in S : \A y \in S : y <= x

\* get_latest: the possible return values (Nothing or a row).  sort_values
\* with the default, unstable sort may leave any row of the latest date last.
get_latest(p, symbol) ==
    LET data == get_data(p)
        sel == IF symbol = None THEN data
               ELSE SelectSeq(data, LAMBDA r : r.symbol = Upper(symbol))
    IN  IF data = <<>> \/ sel = <<>> THEN {Nothing}
        ELSE LET last == MaxOf({r.date : r \in SeqRange(sel)})
             IN  {Some(r) : r \in {x \in SeqRange(sel) : x.date = last}}

\* slice(start_date, end_date): [raised, rows]; end_date is optional
slice(p, start_date, end_date) ==
    LET e == IF end_date = Nothing THEN p.reference_date ELSE end_date[1]
    IN  IF end_date # Nothing /\ end_date[1] > p.reference_date
        THEN [raised |-> "LookAheadBiasError", rows |-> <<>>]
        ELSE [raised |-> None,
              rows |-> SelectSeq(get_data(p),
                                 LAMBDA r : r.date >= start_date /\ r.date <= e)]

advance_to_strict(p, new_date) ==
    IF new_date <= p.reference_date
    THEN [raised |-> "LookAheadBiasError", pit |-> p]
    ELSE [raised |-> None, pit |-> PointInTimeDataFrame(p.df, new_date)]

\* advance_to(new_date): [raised, pit]; the receiver is not modified
advance_to(p, new_date) ==
    IF new_date < p.reference_date
    THEN [raised |-> "LookAheadBiasError", pit |-> p]
    ELSE [raised |-> None, pit |-> PointInTimeDataFrame(p.df, new_date)]

\* the symbols property
symbols(p) == {r.symbol : r \in SeqRange(p.df)}

\* ------------------------------------------------------------------------
\* dict helpers
\* ------------------------------------------------------------------------
EmptyDict == [k \in {} |-> None]

DictPut(m, k, v) == [x \in DOMAIN m \cup {k} |-> IF x = k THEN v ELSE m[x]]

DictDel(m, k) == [x \in DOMAIN m \ {k} |-> m[x]]

\* sum(f(k) for k in S)
RECURSIVE RSum(_, _)
RSum(f, S) ==
    IF S = {} THEN Zero
    ELSE LET k == CHOOSE x \in S : TRUE
         IN  RAdd(f[k], RSum(f, S \ {k}))

\* ------------------------------------------------------------------------
\* core.types: Trade
\* ------------------------------------------------------------------------
LONG == "LONG"
SHORT == "SHORT"

Trade(date, symbol, side, shares, price, commission, pair_id) ==
    [date |-> date, symbol |-> symbol, side |-> side, shares |-> shares,
     price |-> price, commission |-> commission, pair_id |-> pair_id]

\* Trade.__post_init__ accepts the fields
TradeValid(shares, price, commission) ==
    RGt(shares, Zero) /\ RGt(price, Zero) /\ RGe(commission, Zero)

notional(t) == RMul(t.shares, t.price)

total_cost(t) == RAdd(notional(t), t.commission)

signed_shares(t) == IF t.side = LONG THEN t.shares ELSE RNeg(t.shares)

\* ------------------------------------------------------------------------
\* core.types: Position
\* ------------------------------------------------------------------------
Position(symbol, shares, avg_entry_price, current_price) ==
    [symbol |-> symbol, shares |-> shares, avg_entry_price |-> avg_entry_price,
     current_price |-> current_price, realized_pnl |-> Zero]

is_flat(pos) == pos.shares = Zero

market_value(pos) == RMul(pos.shares, pos.current_price)

cost_basis(pos) == RMul(pos.shares, pos.avg_entry_price)

unrealized_pnl(pos) == RSub(market_value(pos), cost_basis(pos))

update_price(pos, price) == [pos EXCEPT !.current_price = price]

\* add_shares that leaves avg_entry_price when the shares return to 0
add_shares_keepavg(pos, shares, price) ==
    IF pos.shares = Zero
    THEN [pos |-> [pos EXCEPT !.shares = shares, !.avg_entry_price = price],
          realized |-> Zero]
    ELSE IF (RGt(pos.shares, Zero) /\ RGt(shares, Zero))
            \/ (RLt(pos.shares, Zero) /\ RLt(shares, Zero))
    THEN LET cost == RAdd(cost_basis(pos), RMul(shares, price))
             total == RAdd(pos.shares, shares)
         IN  [pos |-> [pos EXCEPT !.shares = total,
                                  !.avg_entry_price =
                                      IF total # Zero THEN RDiv(cost, total)
                                      ELSE Zero],
              realized |-> Zero]
    ELSE LET closing_shares == RMin(RAbs(shares), RAbs(pos.shares))
             realized == IF RGt(pos.shares, Zero)
                         THEN RMul(closing_shares, RSub(price, pos.avg_entry_price))
                         ELSE RMul(closing_shares, RSub(pos.avg_entry_price, price))
             remaining_new == RSub(RAbs(shares), closing_shares)
             reduced == RAdd(pos.shares, shares)
         IN  [pos |->
                IF RGt(remaining_new, Zero)
                THEN [pos EXCEPT !.realized_pnl = RAdd(@, realized),
                                 !.shares = IF RGt(shares, Zero) THEN remaining_new
                                            ELSE RNeg(remaining_new),
                                 !.avg_entry_price = price]
                ELSE [pos EXCEPT !.realized_pnl = RAdd(@, realized),
                                 !.shares = reduced,
                                 !.avg_entry_price = @],
              realized |-> realized]

\* add_shares(shares, price): [pos, realized]
add_shares(pos, shares, price) ==
    IF pos.shares = Zero
    THEN [pos |-> [pos EXCEPT !.shares = shares, !.avg_entry_price = price],
          realized |-> Zero]
    ELSE IF (RGt(pos.shares, Zero) /\ RGt(shares, Zero))
            \/ (RLt(pos.shares, Zero) /\ RLt(shares, Zero))
    THEN LET cost == RAdd(cost_basis(pos), RMul(shares, price))
             total == RAdd(pos.shares, shares)
         IN  [pos |-> [pos EXCEPT !.shares = total,
                                  !.avg_entry_price =
                                      IF total # Zero THEN RDiv(cost, total)
                                      ELSE Zero],
              realized |-> Zero]
    ELSE LET closing_shares == RMin(RAbs(shares), RAbs(pos.shares))
             realized == IF RGt(pos.shares, Zero)
                         THEN RMul(closing_shares, RSub(price, pos.avg_entry_price))
                         ELSE RMul(closing_shares, RSub(pos.avg_entry_price, price))
             remaining_new == RSub(RAbs(shares), closing_shares)
             reduced == RAdd(pos.shares, shares)
         IN  [pos |->
                IF RGt(remaining_new, Zero)
                THEN [pos EXCEPT !.realized_pnl = RAdd(@, realized),
                                 !.shares = IF RGt(shares, Zero) THEN remaining_new
                                            ELSE RNeg(remaining_new),
                                 !.avg_entry_price = price]
                ELSE [pos EXCEPT !.realized_pnl = RAdd(@, realized),
                                 !.shares = reduced,
                                 !.avg_entry_price =
                                     IF reduced = Zero THEN Zero ELSE @],
              realized |-> realized]

\* ------------------------------------------------------------------------
\* core.types: PairPosition
\* ------------------------------------------------------------------------
PairPosition(pair_id, long_position, short_position, hedge_ratio, entry_date) ==
    [pair_id |-> pair_id, long_position |-> long_position,
     short_position |-> short_position, hedge_ratio |-> hedge_ratio,
     entry_date |-> entry_date]

pair_market_value(pp) ==
    RAdd(market_value(pp.long_position), market_value(pp.short_position))

is_closed(pp) == is_flat(pp.long_position) /\ is_flat(pp.short_position)

pair_update_prices(pp, long_price, short_price) ==
    [pp EXCEPT !.long_position = update_price(@, long_price),
               !.short_position = update_price(@, short_price)]

\* ------------------------------------------------------------------------
\* portfolio.portfolio: Portfolio
\* ------------------------------------------------------------------------
\* Portfolio(initial_capital) after __post_init__
Portfolio(initial_capital) ==
    [initial_capital |-> initial_capital,
     cash |-> initial_capital,
     positions |-> EmptyDict,
     pair_positions |-> EmptyDict,
     equity_curve |-> <<>>,
     cumulative_commission |-> Zero]

equity_positions(pf) ==
    RAdd(RSum([sym \in DOMAIN pf.positions |-> market_value(pf.positions[sym])],
              DOMAIN pf.positions),
         RSum([i \in DOMAIN pf.pair_positions |->
                  pair_market_value(pf.pair_positions[i])],
              DOMAIN pf.pair_positions))

equity(pf) ==
    LET position_value ==
            RSum([s \in DOMAIN pf.positions |-> market_value(pf.positions[s])],
                 DOMAIN pf.positions)
        pair_value ==
            RSum([i \in DOMAIN pf.pair_positions |->
                      pair_market_value(pf.pair_positions[i])],
                 DOMAIN pf.pair_positions)
    IN  RAdd(RAdd(pf.cash, position_value), pair_value)

\* the realized_pnl property
realized_pnl(pf) ==
    LET position_pnl ==
            RSum([s \in DOMAIN pf.positions |-> pf.positions[s].realized_pnl],
                 DOMAIN pf.positions)
        pair_pnl ==
            RSum([i \in DOMAIN pf.pair_positions |->
                      RAdd(pf.pair_positions[i].long_position.realized_pnl,
                           pf.pair_positions[i].short_position.realized_pnl)],
                 DOMAIN pf.pair_positions)
    IN  RAdd(position_pnl, pair_pnl)

\* update_prices(prices): prices is a dict symbol -> price
update_prices(pf, prices) ==
    [pf EXCEPT
       !.positions =
           [s \in DOMAIN pf.positions |->
               IF s \in DOMAIN prices THEN update_price(pf.positions[s], prices[s])
               ELSE pf.positions[s]],
       !.pair_positions =
           [i \in DOMAIN pf.pair_positions |->
               LET pp == pf.pair_positions[i]
                   long_symbol == pp.long_position.symbol
                   short_symbol == pp.short_position.symbol
               IN  IF long_symbol \in DOMAIN prices /\ short_symbol \in DOMAIN prices
                   THEN pair_update_prices(pp, prices[long_symbol], prices[short_symbol])
                   ELSE pp]]

record_equity(pf, current_date) ==
    [pf EXCEPT !.equity_curve = Append(@, <<current_date, equity(pf)>>)]

\* execute_trade with the cash check applied to trades of either side
execute_trade_anyside(pf, trade) ==
    IF RGt(total_cost(trade), pf.cash)
    THEN [raised |-> "InsufficientCapitalError", pf |-> pf, realized |-> Zero]
    ELSE LET position == IF trade.symbol \in DOMAIN pf.positions
                         THEN pf.positions[trade.symbol]
                         ELSE Position(trade.symbol, Zero, Zero, trade.price)
             r == add_shares(position, signed_shares(trade), trade.price)
             cash == IF trade.side = LONG
                     THEN RSub(pf.cash, total_cost(trade))
                     ELSE RAdd(pf.cash, RSub(notional(trade), trade.commission))
         IN  [raised |-> None,
              pf |-> [pf EXCEPT
                        !.positions =
                            IF is_flat(r.pos) THEN DictDel(@, trade.symbol)
                            ELSE DictPut(@, trade.symbol, r.pos),
                        !.cash = cash,
                        !.cumulative_commission = RAdd(@, trade.commission)],
              realized |-> r.realized]

\* execute_trade without the clean-up of flat positions
execute_trade_keepflat(pf, trade) ==
    IF trade.side = LONG /\ RGt(total_cost(trade), pf.cash)
    THEN [raised |-> "InsufficientCapitalError", pf |-> pf, realized |-> Zero]
    ELSE LET position == IF trade.symbol \in DOMAIN pf.positions
                         THEN pf.positions[trade.symbol]
                         ELSE Position(trade.symbol, Zero, Zero, trade.price)
             r == add_shares(position, signed_shares(trade), trade.price)
             cash == IF trade.side = LONG
                     THEN RSub(pf.cash, total_cost(trade))
                     ELSE RAdd(pf.cash, RSub(notional(trade), trade.commission))
         IN  [raised |-> None,
              pf |-> [pf EXCEPT
                        !.positions = DictPut(@, trade.symbol, r.pos),
                        !.cash = cash,
                        !.cumulative_commission = RAdd(@, trade.commission)],
              realized |-> r.realized]

\* execute_trade(trade): [raised, pf, realized]
execute_trade(pf, trade) ==
    IF trade.side = LONG /\ RGt(total_cost(trade), pf.cash)
    THEN [raised |-> "InsufficientCapitalError", pf |-> pf, realized |-> Zero]
    ELSE LET position == IF trade.symbol \in DOMAIN pf.positions
                         THEN pf.positions[trade.symbol]
                         ELSE Position(trade.symbol, Zero, Zero, trade.price)
             r == add_shares(position, signed_shares(trade), trade.price)
             cash == IF trade.side = LONG
                     THEN RSub(pf.cash, total_cost(trade))
                     ELSE RAdd(pf.cash, RSub(notional(trade), trade.commission))
         IN  [raised |-> None,
              pf |-> [pf EXCEPT
                        !.positions =
                            IF is_flat(r.pos) THEN DictDel(@, trade.symbol)
                            ELSE DictPut(@, trade.symbol, r.pos),
                        !.cash = cash,
                        !.cumulative_commission = RAdd(@, trade.commission)],
              realized |-> r.realized]

\* open_pair with the cash check made after the pair has been stored
open_pair_latecheck(pf, pair_id, long_trade, short_trade, hedge_ratio, entry_date) ==
    LET long_position == Position(long_trade.symbol, long_trade.shares,
                                  long_trade.price, long_trade.price)
        short_position == Position(short_trade.symbol, RNeg(short_trade.shares),
                                   short_trade.price, short_trade.price)
        pair_position == PairPosition(pair_id, long_position, short_position,
                                      hedge_ratio, entry_date)
        stored == [pf EXCEPT !.pair_positions = DictPut(@, pair_id, pair_position)]
    IN  IF RGt(total_cost(long_trade), pf.cash)
        THEN [raised |-> "InsufficientCapitalError", pf |-> stored]
        ELSE [raised |-> None,
              pf |-> [stored EXCEPT
                        !.cash = RAdd(RSub(@, total_cost(long_trade)),
                                      RSub(notional(short_trade),
                                           short_trade.commission)),
                        !.cumulative_commission =
                            RAdd(@, RAdd(long_trade.commission,
                                         short_trade.commission))]]

\* open_pair with the short leg stored with the trade's unsigned share count
open_pair_unsigned(pf, pair_id, long_trade, short_trade, hedge_ratio, entry_date) ==
    IF RGt(total_cost(long_trade), pf.cash)
    THEN [raised |-> "InsufficientCapitalError", pf |-> pf]
    ELSE LET long_position == Position(long_trade.symbol, long_trade.shares,
                                       long_trade.price, long_trade.price)
             short_position == Position(short_trade.symbol, short_trade.shares,
                                        short_trade.price, short_trade.price)
             pair_position == PairPosition(pair_id, long_position, short_position,
                                           hedge_ratio, entry_date)
         IN  [raised |-> None,
              pf |-> [pf EXCEPT
                        !.pair_positions = DictPut(@, pair_id, pair_position),
                        !.cash = RAdd(RSub(@, total_cost(long_trade)),
                                      RSub(notional(short_trade),
                                           short_trade.commission)),
                        !.cumulative_commission =
                            RAdd(@, RAdd(long_trade.commission,
                                         short_trade.commission))]]

\* open_pair(pair_id, long_trade, short_trade, hedge_ratio, entry_date):
\* [raised, pf]
open_pair(pf, pair_id, long_trade, short_trade, hedge_ratio, entry_date) ==
    IF RGt(total_cost(long_trade), pf.cash)
    THEN [raised |-> "InsufficientCapitalError", pf |-> pf]
    ELSE LET long_position == Position(long_trade.symbol, long_trade.shares,
                                       long_trade.price, long_trade.price)
             short_position == Position(short_trade.symbol, RNeg(short_trade.shares),
                                        short_trade.price, short_trade.price)
             pair_position == PairPosition(pair_id, long_position, short_position,
                                           hedge_ratio, entry_date)
         IN  [raised |-> None,
              pf |-> [pf EXCEPT
                        !.pair_positions = DictPut(@, pair_id, pair_position),
                        !.cash = RAdd(RSub(@, total_cost(long_trade)),
                                      RSub(notional(short_trade),
                                           short_trade.commission)),
                        !.cumulative_commission =
                            RAdd(@, RAdd(long_trade.commission,
                                         short_trade.commission))]]

close_pair_keep(pf, pair_id, long_trade, short_trade) ==
    IF pair_id \notin DOMAIN pf.pair_positions
    THEN [raised |-> "KeyError", pf |-> pf, realized |-> Zero]
    ELSE LET pair_position == pf.pair_positions[pair_id]
             l == add_shares(pair_position.long_position,
                             RNeg(long_trade.shares), long_trade.price)
             s == add_shares(pair_position.short_position,
                             short_trade.shares, short_trade.price)
         IN  [raised |-> None,
              pf |-> [pf EXCEPT
                        !.cash = RSub(RAdd(@, RSub(notional(long_trade),
                                                   long_trade.commission)),
                                      total_cost(short_trade)),
                        !.cumulative_commission =
                            RAdd(@, RAdd(long_trade.commission,
                                         short_trade.commission)),
                        !.pair_positions =
                            [@ EXCEPT ![pair_id] =
                                PairPosition(pair_id, l.pos, s.pos,
                                             pair_position.hedge_ratio,
                                             pair_position.entry_date)]],
              realized |-> RAdd(l.realized, s.realized)]

\* close_pair(pair_id, long_trade, short_trade): [raised, pf, realized]
close_pair(pf, pair_id, long_trade, short_trade) ==
    IF pair_id \notin DOMAIN pf.pair_positions
    THEN [raised |-> "KeyError", pf |-> pf, realized |-> Zero]
    ELSE LET pair_position == pf.pair_positions[pair_id]
             l == add_shares(pair_position.long_position,
                             RNeg(long_trade.shares), long_trade.price)
             s == add_shares(pair_position.short_position,
                             short_trade.shares, short_trade.price)
         IN  [raised |-> None,
              pf |-> [pf EXCEPT
                        !.cash = RSub(RAdd(@, RSub(notional(long_trade),
                                                   long_trade.commission)),
                                      total_cost(short_trade)),
                        !.cumulative_commission =
                            RAdd(@, RAdd(long_trade.commission,
                                         short_trade.commission)),
                        !.pair_positions = DictDel(@, pair_id)],
              realized |-> RAdd(l.realized, s.realized)]

get_pair_position_default(pf, pair_id) ==
    IF pair_id \in DOMAIN pf.pair_positions
    THEN Some(pf.pair_positions[pair_id])
    ELSE Some(PairPosition(pair_id, Position(None, Zero, Zero, Zero),
                           Position(None, Zero, Zero, Zero), Float(1), 0))

\* get_pair_position(pair_id): optional PairPosition
get_pair_position(pf, pair_id) ==
    IF pair_id \in DOMAIN pf.pair_positions
    THEN Some(pf.pair_positions[pair_id]) ELSE Nothing

\* get_position(symbol): optional Position
get_position(pf, symbol) ==
    IF symbol \in DOMAIN pf.positions THEN Some(pf.positions[symbol]) ELSE Nothing

\* reset()
reset(pf) == Portfolio(pf.initial_capital)

\* ------------------------------------------------------------------------
\* commission.models
\* ------------------------------------------------------------------------
ZeroCommission == [kind |-> "zero"]

\* PerShareCommission with its default fields
PerShareCommission ==
    [kind |-> "per_share", rate |-> Q(5, 1000), minimum |-> Float(1),
     maximum |-> Nothing]

\* PercentageCommission with its default fields
PercentageCommission ==
    [kind |-> "percentage", rate |-> Q(1, 1000), minimum |-> Float(1)]

\* IBKRTieredCommission with the given fields
IBKRTieredCommission(rate_per_share, minimum, maximum_pct, exchange_fee) ==
    [kind |-> "ibkr", rate_per_share |-> rate_per_share, minimum |-> minimum,
     maximum_pct |-> maximum_pct, exchange_fee |-> exchange_fee]

\* IBKRTieredCommission.calculate with the minimum applied after the cap
ibkr_calculate_minlast(model, shares, price) ==
    RMax(RMin(RAdd(RMul(RAbs(shares), model.rate_per_share),
                   RMul(RAbs(shares), model.exchange_fee)),
              RMul(RMul(RAbs(shares), price), model.maximum_pct)),
         model.minimum)

\* IBKRTieredCommission.calculate: base commission, plus fees, then the
\* minimum, then the maximum
ibkr_calculate(model, shares, price) ==
    RMin(RMax(RAdd(RMul(RAbs(shares), model.rate_per_share),
                   RMul(RAbs(shares), model.exchange_fee)),
              model.minimum),
         RMul(RMul(RAbs(shares), price), model.maximum_pct))

\* calculate(shares, price)
calculate(model, shares, price) ==
    IF model.kind = "zero" THEN Zero
    ELSE IF model.kind = "per_share"
    THEN LET c == RMax(RMul(RAbs(shares), model.rate), model.minimum)
         IN  IF model.maximum # Nothing THEN RMin(c, model.maximum[1]) ELSE c
    ELSE IF model.kind = "percentage"
    THEN RMax(RMul(RMul(RAbs(shares), price), model.rate), model.minimum)
    ELSE ibkr_calculate(model, shares, price)

\* ------------------------------------------------------------------------
\* core.types: signals
\* ------------------------------------------------------------------------
OPEN_PAIR == "OPEN_PAIR"
CLOSE_PAIR == "CLOSE_PAIR"

\* on_bar returned None
NoSignal == [kind |-> "none"]

PairSignal(signal_type, long_symbol, short_symbol, hedge_ratio, pair_id) ==
    [kind |-> "pair", signal_type |-> signal_type, long_symbol |-> long_symbol,
     short_symbol |-> short_symbol, hedge_ratio |-> hedge_ratio,
     pair_id |-> pair_id]

\* weights: the dict symbol -> weight as the sequence of its items, in
\* insertion order
WeightSignal(weights) == [kind |-> "weight", weights |-> weights]

get_pair_id(signal) ==
    IF signal.pair_id # None THEN signal.pair_id
    ELSE signal.long_symbol \o "_" \o signal.short_symbol

\* ------------------------------------------------------------------------
\* execution.simple: ClosePriceExecution
\* ------------------------------------------------------------------------
\* the skip threshold of execute_weight_signal, in shares
TinyTrade == Q(1, 100)

open_long_notional_half(capital_per_pair, hedge_ratio) ==
    RDiv(capital_per_pair, Float(2))

\* execute_pair_signal, OPEN_PAIR:
\* long_notional = capital_per_pair / (1 + signal.hedge_ratio)
open_long_notional(capital_per_pair, hedge_ratio) ==
    RDiv(capital_per_pair, RAdd(Float(1), hedge_ratio))

\* execute_pair_signal: [raised, pf, trades, applied]; applied lists the
\* trades that changed the portfolio
execute_pair_signal(commission_model, signal, current_date, prices, pf, capital_per_pair) ==
    LET long_symbol == signal.long_symbol
        short_symbol == signal.short_symbol
        pair_id == get_pair_id(signal)
        fail(e) == [raised |-> e, pf |-> pf, trades |-> <<>>, applied |-> <<>>]
    IN  IF long_symbol \notin DOMAIN prices \/ short_symbol \notin DOMAIN prices
        THEN fail("ExecutionError")
        ELSE
        LET long_price == prices[long_symbol]
            short_price == prices[short_symbol]
        IN  IF signal.signal_type = OPEN_PAIR
            THEN LET long_notional ==
                         open_long_notional(capital_per_pair, signal.hedge_ratio)
                     long_shares == RDiv(long_notional, long_price)
                     short_notional == RMul(long_notional, signal.hedge_ratio)
                     short_shares == RDiv(short_notional, short_price)
                     long_trade ==
                         Trade(current_date, long_symbol, LONG, long_shares,
                               long_price,
                               calculate(commission_model, long_shares, long_price),
                               pair_id)
                     short_trade ==
                         Trade(current_date, short_symbol, SHORT, short_shares,
                               short_price,
                               calculate(commission_model, short_shares, short_price),
                               pair_id)
                     r == open_pair(pf, pair_id, long_trade, short_trade,
                                    signal.hedge_ratio, current_date)
                 IN  IF r.raised # None THEN fail(r.raised)
                     ELSE [raised |-> None, pf |-> r.pf,
                           trades |-> <<long_trade, short_trade>>,
                           applied |-> <<long_trade, short_trade>>]
            ELSE LET pair_position == get_pair_position(pf, pair_id)
                 IN  IF pair_position = Nothing THEN fail("ExecutionError")
                     ELSE
                     LET long_shares == RAbs(pair_position[1].long_position.shares)
                         short_shares == RAbs(pair_position[1].short_position.shares)
                         long_trade ==
                             Trade(current_date, long_symbol, SHORT, long_shares,
                                   long_price,
                                   calculate(commission_model, long_shares, long_price),
                                   pair_id)
                         short_trade ==
                             Trade(current_date, short_symbol, LONG, short_shares,
                                   short_price,
                                   calculate(commission_model, short_shares,
                                             short_price),
                                   pair_id)
                         r == close_pair(pf, pair_id, long_trade, short_trade)
                     IN  [raised |-> None, pf |-> r.pf,
                          trades |-> <<long_trade, short_trade>>,
                          applied |-> <<long_trade, short_trade>>]

\* target_value taken for target_shares
rebalance_shares_value(target_equity, target_weight, price) ==
    RMul(target_equity, target_weight)

\* target_value = target_equity * target_weight;
\* target_shares = target_value / price
rebalance_shares(target_equity, target_weight, price) ==
    RDiv(RMul(target_equity, target_weight), price)

\* the loop of execute_weight_signal over the items of the weights from
\* index i on; acc is [raised, pf, trades, applied] so far
RECURSIVE weight_loop(_, _, _, _, _, _, _)
weight_loop(commission_model, weights, i, current_date, prices, target_equity, acc) ==
    IF i > Len(weights) THEN acc
    ELSE
    LET symbol == weights[i][1]
        target_weight == weights[i][2]
        price == prices[symbol]
        target_shares == rebalance_shares(target_equity, target_weight, price)
        current_position == get_position(acc.pf, symbol)
        current_shares == IF current_position # Nothing
                          THEN current_position[1].shares ELSE Zero
        shares_diff == RSub(target_shares, current_shares)
    IN  IF RLt(RAbs(shares_diff), TinyTrade)
        THEN weight_loop(commission_model, weights, i + 1, current_date, prices,
                         target_equity, acc)
        ELSE
        LET trade == Trade(current_date, symbol,
                           IF RGt(shares_diff, Zero) THEN LONG ELSE SHORT,
                           RAbs(shares_diff), price,
                           calculate(commission_model, RAbs(shares_diff), price),
                           None)
            r == execute_trade(acc.pf, trade)
        IN  IF r.raised # None
            THEN [acc EXCEPT !.raised = r.raised, !.trades = <<>>]
            ELSE weight_loop(commission_model, weights, i + 1, current_date,
                             prices, target_equity,
                             [raised |-> None, pf |-> r.pf,
                              trades |-> Append(acc.trades, trade),
                              applied |-> Append(acc.applied, trade)])

\* execute_weight_signal: [raised, pf, trades, applied]
execute_weight_signal(commission_model, signal, current_date, prices, pf) ==
    IF \E i \in 1..Len(signal.weights) : signal.weights[i][1] \notin DOMAIN prices
    THEN [raised |-> "ExecutionError", pf |-> pf, trades |-> <<>>,
          applied |-> <<>>]
    ELSE weight_loop(commission_model, signal.weights, 1, current_date, prices,
                     equity(pf),
                     [raised |-> None, pf |-> pf, trades |-> <<>>,
                      applied |-> <<>>])

\* ------------------------------------------------------------------------
\* backtest.config and backtest.runner: BacktestRunner
\* ------------------------------------------------------------------------
BacktestConfig(start_date, end_date, initial_capital, capital_per_pair, price_column, commission_model) ==
    [start_date |-> start_date, end_date |-> end_date,
     initial_capital |-> initial_capital, capital_per_pair |-> capital_per_pair,
     price_column |-> price_column, commission_model |-> commission_model]

\* BacktestConfig.__post_init__ accepts the fields
ConfigValid(c) ==
    /\ c.start_date < c.end_date
    /\ RGt(c.initial_capital, Zero)
    /\ RGt(c.capital_per_pair, Zero)
    /\ RLe(c.capital_per_pair, c.initial_capital)

MinOf(S) == CHOOSE x \in S : \A y \in S : x <= y

\* sorted(S) for a set of dates
RECURSIVE Sorted(_)
Sorted(S) == IF S = {} THEN <<>> ELSE <<MinOf(S)>> \o Sorted(S \ {MinOf(S)})

\* sorted(dates) of the date column without unique(): one entry per row
RECURSIVE SortedColumn(_, _)
SortedColumn(df, S) ==
    IF S = {} THEN <<>>
    ELSE LET d == MinOf(S)
             n == Cardinality({i \in 1..Len(df) : df[i].date = d})
         IN  [i \in 1..n |-> d] \o SortedColumn(df, S \ {d})

get_trading_dates_dup(pit_data, config) ==
    SelectSeq(SortedColumn(pit_data.df, {r.date : r \in SeqRange(pit_data.df)}),
              LAMBDA d : config.start_date <= d /\ d <= config.end_date)

\* _get_trading_dates: the sorted unique dates of the whole underlying table
\* within [start_date, end_date]
get_trading_dates(pit_data, config) ==
    SelectSeq(Sorted({r.date : r \in SeqRange(pit_data.df)}),
              LAMBDA d : config.start_date <= d /\ d <= config.end_date)

\* latest[price_col]
Column(r, price_col) == IF price_col = "close" THEN r.close ELSE r.adj_close

\* _get_current_prices: for every symbol of the visible rows, the price
\* column of its last visible row in table order
get_current_prices(pit_data, config) ==
    LET data == get_data(pit_data)
    IN  [s \in {r.symbol : r \in SeqRange(data)} |->
            LET symbol_data == SelectSeq(data, LAMBDA r : r.symbol = s)
            IN  Float(Column(symbol_data[Len(symbol_data)], config.price_column))]

\* _execute_signal
execute_signal(config, signal, current_date, px, pf) ==
    IF signal.kind = "pair"
    THEN execute_pair_signal(config.commission_model, signal, current_date, px,
                             pf, config.capital_per_pair)
    ELSE IF signal.kind = "weight"
    THEN execute_weight_signal(config.commission_model, signal, current_date,
                               px, pf)
    ELSE [raised |-> None, pf |-> pf, trades |-> <<>>, applied |-> <<>>]

run_initial_pit_end(pit_data, config) ==
    PointInTimeDataFrame(pit_data.df, config.end_date)

\* run(): current_pit = pit_data
run_initial_pit(pit_data, config) == pit_data

\* the position of _process_bar after a step: update_prices, on_bar,
\* execute (with the per-trade loop "fill"), record_equity
next_step_swapped(step, sig, pending) ==
    IF step = "update_prices" THEN "on_bar"
    ELSE IF step = "on_bar" THEN "record_equity"
    ELSE IF step = "record_equity"
    THEN (IF sig.kind # "none" THEN "execute" ELSE "end_bar")
    ELSE IF pending # <<>> THEN "fill" ELSE "end_bar"

next_step(step, sig, pending) ==
    IF step = "update_prices" THEN "on_bar"
    ELSE IF step = "on_bar"
    THEN (IF sig.kind # "none" THEN "execute" ELSE "record_equity")
    ELSE IF pending # <<>> THEN "fill"
    ELSE IF step = "record_equity" THEN "end_bar"
    ELSE "record_equity"

\* ------------------------------------------------------------------------
\* strategies.ggr_distance: GGRDistanceStrategy
\* ------------------------------------------------------------------------
\* A z-score or a correlation is sgn * sqrt(sq) with sgn in {-1, 0, 1} and sq
\* a rational, so that the comparisons of the code are exact.
Sgn(x) == IF x[1] > 0 THEN 1 ELSE IF x[1] < 0 THEN -1 ELSE 0

\* num / sqrt(den2), for den2 > 0
Root(num, den2) == [sgn |-> Sgn(num), sq |-> RDiv(RMul(num, num), den2)]

\* z > t
SGt(z, t) ==
    IF Sgn(t) > 0 THEN z.sgn > 0 /\ RGt(z.sq, RMul(t, t))
    ELSE IF Sgn(t) = 0 THEN z.sgn > 0
    ELSE z.sgn >= 0 \/ RLt(z.sq, RMul(t, t))

\* z < t
SLt(z, t) ==
    IF Sgn(t) > 0 THEN z.sgn <= 0 \/ RLt(z.sq, RMul(t, t))
    ELSE IF Sgn(t) = 0 THEN z.sgn < 0
    ELSE z.sgn < 0 /\ RGt(z.sq, RMul(t, t))

\* abs(z) <= t
SAbsLe(z, t) == Sgn(t) >= 0 /\ RLe(z.sq, RMul(t, t))

PairState(pair_id, long_symbol, short_symbol, entry_date, entry_zscore, days_held) ==
    [pair_id |-> pair_id, long_symbol |-> long_symbol,
     short_symbol |-> short_symbol, entry_date |-> entry_date,
     entry_zscore |-> entry_zscore, days_held |-> days_held]

\* correlation is Nothing for NaN
PairCandidate(symbol_a, symbol_b, ssd, correlation) ==
    [symbol_a |-> symbol_a, symbol_b |-> symbol_b, ssd |-> ssd,
     correlation |-> correlation]

\* __init__; symbols is sorted(set(symbols)); trades is BaseStrategy._trades
GGRDistanceStrategy(symbol_list, formation_period, lookback, entry_threshold, exit_threshold, max_holding_days, top_n_pairs, min_correlation) ==
    [kind |-> "ggr", symbols |-> symbol_list, formation_period |-> formation_period,
     lookback |-> lookback, entry_threshold |-> entry_threshold,
     exit_threshold |-> exit_threshold, max_holding_days |-> max_holding_days,
     top_n_pairs |-> top_n_pairs, min_correlation |-> min_correlation,
     pairs |-> <<>>, active_positions |-> <<>>, formation_complete |-> FALSE,
     last_formation_date |-> 0, trades |-> <<>>]

\* on_start
on_start(st) ==
    [st EXCEPT !.pairs = <<>>, !.active_positions = <<>>,
               !.formation_complete = FALSE, !.last_formation_date = 0]

\* _count_trading_days
count_trading_days(data) == Cardinality({r.date : r \in SeqRange(data)})

\* the cell (date d, symbol s) of the pivot of adj_close with aggfunc="last";
\* Nothing is NaN
PivotCell(data, s, d) ==
    LET idx == {i \in 1..Len(data) : data[i].symbol = s /\ data[i].date = d}
    IN  IF idx = {} THEN Nothing ELSE Some(Float(data[MaxOf(idx)].adj_close))

\* the last n elements of a sequence (all of it if shorter)
LastN(seq, n) ==
    IF Len(seq) > n THEN SubSeq(seq, Len(seq) - n + 1, Len(seq)) ELSE seq

\* _get_normalized_prices: prices / prices.iloc[0] - 1 for one cell; Nothing
\* is NaN
cum_return(price, first_price) ==
    IF first_price = Nothing \/ price = Nothing THEN Nothing
    ELSE Some(RSub(RDiv(price[1], first_price[1]), Float(1)))

\* _get_normalized_prices: Nothing, or the frame of cumulative returns
\* [columns, index, value] with value[s][d] optional
get_normalized_prices(st, data) ==
    LET columns == {r.symbol : r \in SeqRange(data)}
        available == SelectSeq(st.symbols, LAMBDA s : s \in columns)
        index == LastN(Sorted({r.date : r \in SeqRange(data)}),
                       st.formation_period)
    IN  IF Len(available) < 2 THEN Nothing
        ELSE Some([columns |-> available,
                   index |-> index,
                   value |->
                     [s \in SeqRange(available) |->
                        [d \in SeqRange(index) |->
                           cum_return(PivotCell(data, s, d),
                                      PivotCell(data, s, index[1]))]]])

\* mean of x over the set D
Mean(x, D) == RDiv(RSum(x, D), Float(Cardinality(D)))

\* sum over D of (x - mean(x)) * (y - mean(y))
CoMoment(x, y, D) ==
    RSum([d \in D |-> RMul(RSub(x[d], Mean(x, D)), RSub(y[d], Mean(y, D)))], D)

\* the correlation from the co-moment and the two moments: Nothing (NaN) for
\* a constant series
corr_of(cov, va, vb) ==
    IF va = Zero \/ vb = Zero THEN Nothing ELSE Some(Root(cov, RMul(va, vb)))

\* Series.corr: Nothing (NaN) with fewer than two points or a constant series
Corr(x, y, D) ==
    IF Cardinality(D) < 2 THEN Nothing
    ELSE corr_of(CoMoment(x, y, D), CoMoment(x, x, D), CoMoment(y, y, D))

\* the pairs (i, j), i < j, of range(n) in the order of the two loops
RECURSIVE IndexPairs(_, _, _)
IndexPairs(i, j, n) ==
    IF i >= n THEN <<>>
    ELSE IF j > n THEN IndexPairs(i + 1, i + 2, n)
    ELSE <<<<i, j>>>> \o IndexPairs(i, j + 1, n)

\* list.sort(key=ssd): stable insertion of c into a list sorted by ssd
RECURSIVE InsertBySsd(_, _)
InsertBySsd(sorted, c) ==
    IF sorted = <<>> THEN <<c>>
    ELSE IF RLt(c.ssd, Head(sorted).ssd) THEN <<c>> \o sorted
    ELSE <<Head(sorted)>> \o InsertBySsd(Tail(sorted), c)

RECURSIVE SortBySsd(_)
SortBySsd(cs) ==
    IF cs = <<>> THEN <<>>
    ELSE InsertBySsd(SortBySsd(SubSeq(cs, 1, Len(cs) - 1)), cs[Len(cs)])

\* seq[:n]
FirstN(seq, n) == IF Len(seq) > n THEN SubSeq(seq, 1, n) ELSE seq

\* normalized[sym].dropna()
dropna(normalized, sym) ==
    [d \in {x \in SeqRange(normalized.index) : normalized.value[sym][x] # Nothing} |->
        normalized.value[sym][d][1]]

\* ((series_a - series_b) ** 2).sum() over the common index
sum_squared_diff(series_a, series_b, common_idx) ==
    RSum([d \in common_idx |-> RMul(RSub(series_a[d], series_b[d]),
                                    RSub(series_a[d], series_b[d]))], common_idx)

\* _run_formation, the two skips of the loop body: the candidates appended
keep_candidate(st, sym_a, sym_b, n_common, ssd, corr) ==
    IF 10 * n_common < 8 * st.formation_period THEN <<>>
    ELSE IF corr # Nothing /\ SLt(corr[1], st.min_correlation) THEN <<>>
    ELSE <<PairCandidate(sym_a, sym_b, ssd, corr)>>

\* _run_formation, the body of the two loops for one pair of series
series_candidate(st, sym_a, sym_b, series_a, series_b, common_idx) ==
    keep_candidate(st, sym_a, sym_b, Cardinality(common_idx),
                   sum_squared_diff(series_a, series_b, common_idx),
                   Corr(series_a, series_b, common_idx))

\* _run_formation, the body of the two loops for one pair: the candidates
\* it appends
formation_candidate(st, normalized, sym_a, sym_b) ==
    series_candidate(st, sym_a, sym_b, dropna(normalized, sym_a),
                     dropna(normalized, sym_b),
                     DOMAIN dropna(normalized, sym_a)
                         \cap DOMAIN dropna(normalized, sym_b))

RECURSIVE formation_candidates(_, _, _)
formation_candidates(st, normalized, ijs) ==
    IF ijs = <<>> THEN <<>>
    ELSE formation_candidate(st, normalized, normalized.columns[Head(ijs)[1]],
                             normalized.columns[Head(ijs)[2]])
         \o formation_candidates(st, normalized, Tail(ijs))

\* _run_formation: the strategy after it
run_formation(st, data, current_date) ==
    LET normalized == get_normalized_prices(st, data)
    IN  IF normalized = Nothing THEN st
        ELSE [st EXCEPT !.pairs =
                 FirstN(SortBySsd(formation_candidates(
                            st, normalized[1],
                            IndexPairs(1, 2, Len(normalized[1].columns)))),
                        st.top_n_pairs),
                        !.formation_complete = TRUE,
                        !.last_formation_date = current_date]

\* _calculate_zscore: spread_a - spread_b on date d, the returns taken from
\* date d0
spread_at(data, symbol_a, symbol_b, d, d0) ==
    RSub(RSub(RDiv(PivotCell(data, symbol_a, d)[1],
                   PivotCell(data, symbol_a, d0)[1]), Float(1)),
         RSub(RDiv(PivotCell(data, symbol_b, d)[1],
                   PivotCell(data, symbol_b, d0)[1]), Float(1)))

\* _calculate_zscore: (current_spread - mean) / std; None for std = 0
standardise(current_spread, mean, variance) ==
    IF variance = Zero THEN Nothing
    ELSE Some(Root(RSub(current_spread, mean), variance))

\* _calculate_zscore, from the spread on: std is NaN for a single point
spread_zscore(spread, D, last) ==
    IF Cardinality(D) < 2 THEN Nothing
    ELSE standardise(spread[last], Mean(spread, D),
                     RDiv(CoMoment(spread, spread, D), Float(Cardinality(D) - 1)))

\* _calculate_zscore: Nothing (None) or the z-score of the spread
calculate_zscore(st, data, symbol_a, symbol_b) ==
    LET dates_a == {r.date : r \in {x \in SeqRange(data) : x.symbol = symbol_a}}
        dates_b == {r.date : r \in {x \in SeqRange(data) : x.symbol = symbol_b}}
        merged == Sorted(dates_a \cap dates_b)
        window == LastN(merged, st.lookback)
    IN  IF dates_a = {} \/ dates_b = {} THEN Nothing
        ELSE IF 2 * Len(merged) < st.lookback THEN Nothing
        ELSE spread_zscore([d \in SeqRange(window) |->
                              spread_at(data, symbol_a, symbol_b, d, window[1])],
                           SeqRange(window), window[Len(window)])

\* _create_close_signal
create_close_signal(state) ==
    PairSignal(CLOSE_PAIR, state.long_symbol, state.short_symbol, Float(1),
               state.pair_id)

\* _check_exits, the tests on the z-score: convergence or sign crossing
zscore_exit(st, state, zscore) ==
    /\ zscore # Nothing
    /\ \/ SAbsLe(zscore[1], st.exit_threshold)
       \/ state.entry_zscore.sgn > 0 /\ zscore[1].sgn <= 0
       \/ state.entry_zscore.sgn < 0 /\ zscore[1].sgn >= 0

exit_due_nostop(st, data, state) ==
    zscore_exit(st, state, calculate_zscore(st, data, state.long_symbol,
                                            state.short_symbol))

\* _check_exits, the body of the loop for one active position: it returns
exit_due(st, data, state) ==
    \/ state.days_held >= st.max_holding_days
    \/ zscore_exit(st, state, calculate_zscore(st, data, state.long_symbol,
                                               state.short_symbol))

\* _check_exits over the active positions from index i on: a signal or None
RECURSIVE check_exits(_, _, _)
check_exits(st, data, i) ==
    IF i > Len(st.active_positions) THEN NoSignal
    ELSE IF exit_due(st, data, st.active_positions[i])
    THEN create_close_signal(st.active_positions[i])
    ELSE check_exits(st, data, i + 1)

\* pair_id in self._active_positions
IsActive(st, pair_id) ==
    \E i \in 1..Len(st.active_positions) : st.active_positions[i].pair_id = pair_id

\* _check_entries recording the position with the bar of the OPEN counted
enter_counted(st, pair_id, long_symbol, short_symbol, current_date, zscore) ==
    [strategy |->
        [st EXCEPT !.active_positions =
            Append(@, PairState(pair_id, long_symbol, short_symbol,
                                current_date, zscore, 1))],
     signal |-> PairSignal(OPEN_PAIR, long_symbol, short_symbol, Float(1),
                           pair_id)]

\* _check_entries: the position is recorded and the OPEN returned
enter(st, pair_id, long_symbol, short_symbol, current_date, zscore) ==
    [strategy |->
        [st EXCEPT !.active_positions =
            Append(@, PairState(pair_id, long_symbol, short_symbol,
                                current_date, zscore, 0))],
     signal |-> PairSignal(OPEN_PAIR, long_symbol, short_symbol, Float(1),
                           pair_id)]

RECURSIVE check_entries(_, _, _, _)
\* _check_entries, the body of the loop for the pair of index i with its
\* z-score
try_entry(st, data, current_date, i, pair, zscore) ==
    IF IsActive(st, pair.symbol_a \o "_" \o pair.symbol_b) \/ zscore = Nothing
    THEN check_entries(st, data, current_date, i + 1)
    ELSE IF SGt(zscore[1], st.entry_threshold)
    THEN enter(st, pair.symbol_a \o "_" \o pair.symbol_b, pair.symbol_b,
               pair.symbol_a, current_date, zscore[1])
    ELSE IF SLt(zscore[1], RNeg(st.entry_threshold))
    THEN enter(st, pair.symbol_a \o "_" \o pair.symbol_b, pair.symbol_a,
               pair.symbol_b, current_date, zscore[1])
    ELSE check_entries(st, data, current_date, i + 1)

\* _check_entries over the pairs from index i on: [strategy, signal]
check_entries(st, data, current_date, i) ==
    IF i > Len(st.pairs) THEN [strategy |-> st, signal |-> NoSignal]
    ELSE try_entry(st, data, current_date, i, st.pairs[i],
                   calculate_zscore(st, data, st.pairs[i].symbol_a,
                                    st.pairs[i].symbol_b))

\* the end of on_bar with the entries checked before the exits
first_signal_entry(st, exit_signal, data, current_date) ==
    IF check_entries(st, data, current_date, 1).signal # NoSignal
    THEN check_entries(st, data, current_date, 1)
    ELSE [strategy |-> st, signal |-> exit_signal]

\* on_bar, its end: the exit signal if there is one, else _check_entries
first_signal(st, exit_signal, data, current_date) ==
    IF exit_signal # NoSignal THEN [strategy |-> st, signal |-> exit_signal]
    ELSE check_entries(st, data, current_date, 1)

\* on_bar after the formation: days_held is incremented, exits, entries
trade_bar(formed, data, current_date) ==
    IF formed.pairs = <<>> THEN [strategy |-> formed, signal |-> NoSignal]
    ELSE LET held == [formed EXCEPT !.active_positions =
                         [i \in 1..Len(@) |-> [@[i] EXCEPT !.days_held = @ + 1]]]
         IN  first_signal(held, check_exits(held, data, 1), data, current_date)

\* on_bar: [strategy, signal]
on_bar(st, current_date, pit_data) ==
    IF count_trading_days(get_data(pit_data)) < st.formation_period
    THEN [strategy |-> st, signal |-> NoSignal]
    ELSE trade_bar(IF ~st.formation_complete
                   THEN run_formation(st, get_data(pit_data), current_date)
                   ELSE st,
                   get_data(pit_data), current_date)

\* on_fill that only records the trade
on_fill_logonly(st, trade) ==
    [st EXCEPT !.trades = Append(@, trade)]

\* on_fill that drops the position of a traded pair on any fill
on_fill_anyday(st, trade) ==
    LET logged == [st EXCEPT !.trades = Append(@, trade)]
    IN  IF trade.pair_id = None THEN logged
        ELSE [logged EXCEPT !.active_positions =
                 SelectSeq(@, LAMBDA state : ~(state.pair_id = trade.pair_id))]

\* on_fill: BaseStrategy.on_fill, then the position of a traded pair that
\* was held for at least one bar is dropped
on_fill(st, trade) ==
    LET logged == [st EXCEPT !.trades = Append(@, trade)]
    IN  IF trade.pair_id = None THEN logged
        ELSE [logged EXCEPT !.active_positions =
                 SelectSeq(@, LAMBDA state :
                              ~(state.pair_id = trade.pair_id
                                /\ state.days_held > 0))]

\* ------------------------------------------------------------------------
\* analysis.trade_analysis: match_round_trips
\* ------------------------------------------------------------------------
RoundTrip(pair_id, entry_date, exit_date, long_symbol, short_symbol, long_entry_price, short_entry_price, long_exit_price, short_exit_price, long_shares, short_shares, pnl, holding_days, return_pct, commission, is_open) ==
    [pair_id |-> pair_id, entry_date |-> entry_date, exit_date |-> exit_date,
     long_symbol |-> long_symbol, short_symbol |-> short_symbol,
     long_entry_price |-> long_entry_price,
     short_entry_price |-> short_entry_price,
     long_exit_price |-> long_exit_price, short_exit_price |-> short_exit_price,
     long_shares |-> long_shares, short_shares |-> short_shares, pnl |-> pnl,
     holding_days |-> holding_days, return_pct |-> return_pct,
     commission |-> commission, is_open |-> is_open]

\* positions[symbol] = {"shares": 0.0, "avg_price": 0.0, "side": None}; the
\* keys set later are absent: has_entry, and exit_price = Nothing
NewLeg ==
    [shares |-> Zero, avg_price |-> Zero, side |-> None, has_entry |-> FALSE,
     entry_date |-> 0, commission |-> Zero, exit_price |-> Nothing,
     exit_date |-> Nothing, exit_commission |-> Zero, closed |-> FALSE]

\* the exit commission is not read
track_trade_noexitfee(pos, trade) ==
    IF pos.shares = Zero
    THEN [pos EXCEPT !.shares = trade.shares, !.avg_price = trade.price,
                     !.side = trade.side, !.has_entry = TRUE,
                     !.entry_date = trade.date, !.commission = trade.commission]
    ELSE IF pos.side = trade.side
    THEN [pos EXCEPT !.shares = RAdd(@, trade.shares),
                     !.avg_price = RDiv(RAdd(RMul(pos.shares, pos.avg_price),
                                             RMul(trade.shares, trade.price)),
                                        RAdd(pos.shares, trade.shares)),
                     !.commission = RAdd(@, trade.commission)]
    ELSE IF RMin(trade.shares, pos.shares) = pos.shares
    THEN [pos EXCEPT !.exit_price = Some(trade.price),
                     !.exit_date = Some(trade.date),
                     !.closed = TRUE, !.shares = Zero]
    ELSE [pos EXCEPT !.shares = RSub(@, RMin(trade.shares, pos.shares))]

\* the body of the loop over the trades of a pair: the entry of the symbol
\* after the trade
track_trade(pos, trade) ==
    IF pos.shares = Zero
    THEN [pos EXCEPT !.shares = trade.shares, !.avg_price = trade.price,
                     !.side = trade.side, !.has_entry = TRUE,
                     !.entry_date = trade.date, !.commission = trade.commission]
    ELSE IF pos.side = trade.side
    THEN [pos EXCEPT !.shares = RAdd(@, trade.shares),
                     !.avg_price = RDiv(RAdd(RMul(pos.shares, pos.avg_price),
                                             RMul(trade.shares, trade.price)),
                                        RAdd(pos.shares, trade.shares)),
                     !.commission = RAdd(@, trade.commission)]
    ELSE IF RMin(trade.shares, pos.shares) = pos.shares
    THEN [pos EXCEPT !.exit_price = Some(trade.price),
                     !.exit_date = Some(trade.date),
                     !.exit_commission = trade.commission,
                     !.closed = TRUE, !.shares = Zero]
    ELSE [pos EXCEPT !.shares = RSub(@, RMin(trade.shares, pos.shares))]

\* sorted(trades, key=lambda t: t.date): stable insertion of t
RECURSIVE InsertByDate(_, _)
InsertByDate(sorted, t) ==
    IF sorted = <<>> THEN <<t>>
    ELSE IF t.date < Head(sorted).date THEN <<t>> \o sorted
    ELSE <<Head(sorted)>> \o InsertByDate(Tail(sorted), t)

RECURSIVE SortByDate(_)
SortByDate(ts) ==
    IF ts = <<>> THEN <<>>
    ELSE InsertByDate(SortByDate(SubSeq(ts, 1, Len(ts) - 1)), ts[Len(ts)])

\* the loop over the trades of a pair: [positions, keys], keys being
\* list(positions.keys())
RECURSIVE track_positions(_, _, _)
track_positions(trades, positions, keys) ==
    IF trades = <<>> THEN [positions |-> positions, keys |-> keys]
    ELSE track_positions(
             Tail(trades),
             DictPut(positions, Head(trades).symbol,
                     track_trade(IF Head(trades).symbol \in DOMAIN positions
                                 THEN positions[Head(trades).symbol] ELSE NewLeg,
                                 Head(trades))),
             IF Head(trades).symbol \in DOMAIN positions THEN keys
             ELSE Append(keys, Head(trades).symbol))

\* pos.get("shares", 0) or (avg_price and exit and abs(commission / 0.005 /
\* avg_price) if pos.get("commission") else 100)
fallback_shares(pos, exit) ==
    IF pos.shares # Zero THEN pos.shares
    ELSE IF pos.commission = Zero THEN Float(100)
    ELSE IF pos.avg_price = Zero THEN Zero
    ELSE IF exit = Zero THEN Zero
    ELSE RAbs(RDiv(RMul(pos.commission, Float(200)), pos.avg_price))

\* sum(t.shares for t in trades if t.symbol == symbol and t.side == side)
entry_shares(trades, symbol, side) ==
    RSum([i \in 1..Len(trades) |-> trades[i].shares],
         {i \in 1..Len(trades) : trades[i].symbol = symbol /\ trades[i].side = side})

\* the RoundTrip appended for a pair, from the legs, their exits and shares
make_round_trip(pair_id, long_sym, short_sym, long_pos, short_pos, entry_date, exit_date, long_exit, short_exit, long_shares, short_shares, total_commission, is_open) ==
    RoundTrip(pair_id, entry_date, exit_date, long_sym, short_sym,
              long_pos.avg_price, short_pos.avg_price, long_exit, short_exit,
              long_shares, short_shares,
              RSub(RAdd(RMul(long_shares, RSub(long_exit, long_pos.avg_price)),
                        RMul(short_shares, RSub(short_pos.avg_price, short_exit))),
                   total_commission),
              IF exit_date = Nothing THEN 0 ELSE exit_date[1] - entry_date,
              IF RGt(RAdd(RMul(long_shares, long_pos.avg_price),
                          RMul(short_shares, short_pos.avg_price)), Zero)
              THEN RDiv(RSub(RAdd(RMul(long_shares,
                                       RSub(long_exit, long_pos.avg_price)),
                                  RMul(short_shares,
                                       RSub(short_pos.avg_price, short_exit))),
                             total_commission),
                        RAdd(RMul(long_shares, long_pos.avg_price),
                             RMul(short_shares, short_pos.avg_price)))
              ELSE Zero,
              total_commission, is_open)

\* the round trip of a pair whose exits are known: shares and commission
priced_round_trip(pair_id, trades, long_sym, short_sym, long_pos, short_pos, exit_date, long_exit, short_exit, is_open) ==
    make_round_trip(
        pair_id, long_sym, short_sym, long_pos, short_pos,
        IF long_pos.entry_date > short_pos.entry_date THEN long_pos.entry_date
        ELSE short_pos.entry_date,
        exit_date, long_exit, short_exit,
        IF \E i \in 1..Len(trades) : trades[i].symbol = long_sym /\ trades[i].side = LONG
           /\ \E j \in 1..Len(trades) : trades[j].symbol = short_sym /\ trades[j].side = SHORT
        THEN entry_shares(trades, long_sym, LONG)
        ELSE fallback_shares(long_pos, long_exit),
        IF \E i \in 1..Len(trades) : trades[i].symbol = long_sym /\ trades[i].side = LONG
           /\ \E j \in 1..Len(trades) : trades[j].symbol = short_sym /\ trades[j].side = SHORT
        THEN entry_shares(trades, short_sym, SHORT)
        ELSE fallback_shares(short_pos, short_exit),
        RAdd(RAdd(long_pos.commission, short_pos.commission),
             RAdd(long_pos.exit_commission, short_pos.exit_commission)),
        is_open)

\* max of two dates
MaxDateOf(a, b) == IF a > b THEN a ELSE b

\* the round trips appended for a pair once its legs are told apart; final_prices
\* is a dict (None is the empty dict), end_date is optional
leg_round_trips(pair_id, trades, long_sym, short_sym, long_pos, short_pos, final_prices, include_open, end_date) ==
    IF ~long_pos.has_entry \/ ~short_pos.has_entry THEN <<>>
    ELSE IF long_pos.closed /\ short_pos.closed
    THEN <<priced_round_trip(pair_id, trades, long_sym, short_sym, long_pos,
                             short_pos,
                             Some(MaxDateOf(long_pos.exit_date[1],
                                            short_pos.exit_date[1])),
                             long_pos.exit_price[1], short_pos.exit_price[1],
                             FALSE)>>
    ELSE IF include_open /\ DOMAIN final_prices # {}
    THEN <<priced_round_trip(pair_id, trades, long_sym, short_sym, long_pos,
                             short_pos, end_date,
                             IF long_sym \in DOMAIN final_prices
                             THEN final_prices[long_sym] ELSE long_pos.avg_price,
                             IF short_sym \in DOMAIN final_prices
                             THEN final_prices[short_sym] ELSE short_pos.avg_price,
                             TRUE)>>
    ELSE <<>>

\* "Build round-trip from positions": the round trips appended for a pair
pair_round_trips(pair_id, trades, tracked, final_prices, include_open, end_date) ==
    IF Len(tracked.keys) # 2 THEN <<>>
    ELSE IF tracked.positions[tracked.keys[1]].side = LONG
    THEN leg_round_trips(pair_id, trades, tracked.keys[1], tracked.keys[2],
                         tracked.positions[tracked.keys[1]],
                         tracked.positions[tracked.keys[2]],
                         final_prices, include_open, end_date)
    ELSE leg_round_trips(pair_id, trades, tracked.keys[2], tracked.keys[1],
                         tracked.positions[tracked.keys[2]],
                         tracked.positions[tracked.keys[1]],
                         final_prices, include_open, end_date)

\* the keys of pair_trades in insertion order
RECURSIVE pair_ids(_, _)
pair_ids(log, seen) ==
    IF log = <<>> THEN seen
    ELSE pair_ids(Tail(log),
                  IF Head(log).pair_id = None
                     \/ \E i \in 1..Len(seen) : seen[i] = Head(log).pair_id
                  THEN seen ELSE Append(seen, Head(log).pair_id))

\* the loop over pair_trades from the pair of index i on
RECURSIVE round_trips_from(_, _, _, _, _, _)
round_trips_from(log, ids, i, final_prices, include_open, end_date) ==
    IF i > Len(ids) THEN <<>>
    ELSE pair_round_trips(
             ids[i],
             SortByDate(SelectSeq(log, LAMBDA t : t.pair_id = ids[i])),
             track_positions(
                 SortByDate(SelectSeq(log, LAMBDA t : t.pair_id = ids[i])),
                 EmptyDict, <<>>),
             final_prices, include_open, end_date)
         \o round_trips_from(log, ids, i + 1, final_prices, include_open, end_date)

\* match_round_trips(trade_log, final_prices, include_open, end_date)
match_round_trips(log, final_prices, include_open, end_date) ==
    round_trips_from(log, pair_ids(log, <<>>), 1, final_prices, include_open,
                     end_date)

\* ------------------------------------------------------------------------
\* ptdata.cache: CacheMetadata, CSVCache
\* ------------------------------------------------------------------------
\* A symbol is a str: the sequence of its characters.  A file of the cache
\* directory is named by the sequence of the characters of its stem followed
\* by its suffix; its content is the set of the dates of its rows.

\* str.upper()
upper(symbol) == [i \in 1..Len(symbol) |-> IF symbol[i] = "a" THEN "A" ELSE symbol[i]]

\* the characters of the classes [A-Z0-9] and [A-Z0-9.\-]
FirstChars == {"A", "B", "0"}
RestChars == FirstChars \cup {".", "-"}

\* re.fullmatch of [A-Z0-9][A-Z0-9.\-]{0,9}
fullmatch(symbol) ==
    /\ Len(symbol) \in 1..10
    /\ symbol[1] \in FirstChars
    /\ \A i \in 2..Len(symbol) : symbol[i] \in RestChars

\* _VALID_SYMBOL_PATTERN.match(symbol) with the pattern
\* ^[A-Z0-9][A-Z0-9.\-]{0,9}$ : "$" matches at the end of the string and
\* also just before a newline that ends the string
pattern_match(symbol) ==
    \/ fullmatch(symbol)
    \/ /\ Len(symbol) >= 2
       /\ symbol[Len(symbol)] = "\n"
       /\ fullmatch(SubSeq(symbol, 1, Len(symbol) - 1))

\* cache_path.resolve().relative_to(cache_dir.resolve()) raises: a name with
\* a directory separator does not resolve to a file of the cache directory
leaves_cache_dir(name) == \E i \in 1..Len(name) : name[i] = "/"

\* _get_cache_path (after _validate_symbol): the path, or the error raised
get_cache_path(symbol) ==
    IF ~pattern_match(symbol) THEN [raised |-> "ValueError", path |-> <<>>]
    ELSE IF leaves_cache_dir(symbol) THEN [raised |-> "ValueError", path |-> <<>>]
    ELSE [raised |-> None, path |-> Append(symbol, ".csv")]

SymbolCacheInfo(symbol, start_date, end_date, download_date, row_count) ==
    [symbol |-> symbol, start_date |-> start_date, end_date |-> end_date,
     download_date |-> download_date, row_count |-> row_count]

\* SymbolCacheInfo.covers
covers(info, start, end) == info.start_date <= start /\ info.end_date >= end

\* CacheMetadata.is_valid, with datetime.now() = now
metadata_is_valid_noage(metadata, symbol, start, end, max_age_days, now) ==
    /\ upper(symbol) \in DOMAIN metadata
    /\ covers(metadata[upper(symbol)], start, end)

metadata_is_valid(metadata, symbol, start, end, max_age_days, now) ==
    /\ upper(symbol) \in DOMAIN metadata
    /\ covers(metadata[upper(symbol)], start, end)
    /\ ~(max_age_days > 0 /\ now - metadata[upper(symbol)].download_date >= max_age_days)

\* CacheMetadata.set
metadata_set(metadata, symbol, start, end, row_count, now) ==
    DictPut(metadata, upper(symbol), SymbolCacheInfo(upper(symbol), start, end, now, row_count))

\* CacheMetadata.remove
metadata_remove(metadata, symbol) == DictDel(metadata, upper(symbol))

\* CSVCache.__init__ on an empty directory
CSVCache(expiry_days) ==
    [files |-> EmptyDict, adjusted |-> EmptyDict, metadata |-> EmptyDict,
     expiry_days |-> expiry_days, now |-> 0]

\* _is_cache_valid: the answer, the error raised, the paths looked at
is_cache_valid(c, symbol, start, end) ==
    IF ~metadata_is_valid(c.metadata, symbol, start, end, c.expiry_days, c.now)
    THEN [raised |-> None, valid |-> FALSE, touched |-> {}]
    ELSE IF get_cache_path(symbol).raised # None
    THEN [raised |-> get_cache_path(symbol).raised, valid |-> FALSE, touched |-> {}]
    ELSE [raised |-> None,
          valid |-> get_cache_path(symbol).path \in DOMAIN c.files,
          touched |-> {get_cache_path(symbol).path}]

\* _load_from_cache: the dates of the rows of the file within [start, end]
load_from_cache(c, symbol, start, end) ==
    IF get_cache_path(symbol).path \notin DOMAIN c.files THEN {}
    ELSE {d \in c.files[get_cache_path(symbol).path] : start <= d /\ d <= end}

\* get_prices, step 1: which syms are served from the cache and which
\* are to be fetched; acc = [raised, served, symbols_to_fetch, touched]
RECURSIVE check_cache(_, _, _, _, _)
check_symbol(c, syms, start, end, acc, v) ==
    IF v.raised # None THEN [acc EXCEPT !.raised = v.raised]
    ELSE IF v.valid /\ load_from_cache(c, upper(Head(syms)), start, end) # {}
    THEN check_cache(c, Tail(syms), start, end,
                     [acc EXCEPT !.served = Append(@, upper(Head(syms))),
                                 !.touched = @ \cup v.touched])
    ELSE check_cache(c, Tail(syms), start, end,
                     [acc EXCEPT !.symbols_to_fetch = Append(@, upper(Head(syms))),
                                 !.touched = @ \cup v.touched])

check_cache(c, syms, start, end, acc) ==
    IF syms = <<>> THEN acc
    ELSE check_symbol(c, syms, start, end, acc,
                      is_cache_valid(c, upper(Head(syms)), start, end))

\* _save_to_cache: writes the file, records the requested range and the
\* time of the download; r = [raised, cache, touched]
save_to_cache(r, symbol, rows, adjusted, start, end) ==
    IF get_cache_path(upper(symbol)).raised # None
    THEN [r EXCEPT !.raised = get_cache_path(upper(symbol)).raised]
    ELSE [r EXCEPT !.cache.files = DictPut(@, get_cache_path(upper(symbol)).path, rows),
                   !.cache.adjusted =
                       DictPut(@, get_cache_path(upper(symbol)).path, adjusted),
                   !.cache.metadata =
                       metadata_set(@, symbol, start, end, Cardinality(rows), r.cache.now),
                   !.touched = @ \cup {get_cache_path(upper(symbol)).path}]

\* provider.get_prices(syms, start, end): the rows of one symbol
provider_rows(provider, symbol, start, end) ==
    IF symbol \notin DOMAIN provider THEN {}
    ELSE {d \in provider[symbol] : start <= d /\ d <= end}

\* _fetch_and_cache: for symbol in df["symbol"].unique(): _save_to_cache
RECURSIVE save_fetched(_, _, _, _, _, _)
save_fetched(r, syms, provider, start, end, adjusted) ==
    IF syms = <<>> \/ r.raised # None THEN r
    ELSE IF provider_rows(provider, Head(syms), start, end) = {}
    THEN save_fetched(r, Tail(syms), provider, start, end, adjusted)
    ELSE save_fetched(save_to_cache(r, Head(syms),
                                    provider_rows(provider, Head(syms), start, end),
                                    adjusted, start, end),
                      Tail(syms), provider, start, end, adjusted)

\* _fetch_and_cache; provider = Nothing when the provider raises
\* InsufficientDataError, Some(rows of each symbol) otherwise
fetch_and_cache(c, syms, start, end, adjusted, provider) ==
    IF provider = Nothing THEN [raised |-> None, cache |-> c, touched |-> {}]
    ELSE save_fetched([raised |-> None, cache |-> c, touched |-> {}],
                      syms, provider[1], start, end, adjusted)

\* the rows get_prices returns: (symbol, date)
served_rows(c, served, start, end) ==
    {r \in {served[i] : i \in DOMAIN served} \X (start..end) :
        r[2] \in load_from_cache(c, r[1], start, end)}

fetched_rows(syms, start, end, provider) ==
    IF provider = Nothing THEN {}
    ELSE {r \in {syms[i] : i \in DOMAIN syms} \X (start..end) :
            r[2] \in provider_rows(provider[1], r[1], start, end)}

CacheOutcome(op, syms, start, end, raised, served, fetched, touched, rows) ==
    [op |-> op, symbols |-> syms, start |-> start, end |-> end,
     raised |-> raised, served |-> served, fetched |-> fetched, touched |-> touched,
     rows |-> rows]

\* the prices the returned rows of each symbol hold, adjusted or not: those
\* of the file for a symbol served from the cache, those asked of the
\* provider for a symbol fetched
row_prices(c, served, to_fetch, start, end, adjusted, provider) ==
    [s \in {served[i] : i \in DOMAIN served}
            \cup {to_fetch[i] : i \in DOMAIN to_fetch} |->
        IF \E i \in DOMAIN served : served[i] = s
        THEN IF get_cache_path(s).path \in DOMAIN c.adjusted
             THEN <<c.adjusted[get_cache_path(s).path]>> ELSE <<>>
        ELSE IF provider # Nothing /\ provider_rows(provider[1], s, start, end) # {}
        THEN <<adjusted>> ELSE <<>>]

\* the result r of get_prices with the adjusted argument of the call and the
\* prices of the rows returned
PricedOutcome(c, r, start, end, adjusted, provider) ==
    [cache |-> r.cache,
     out |-> [op |-> r.out.op, symbols |-> r.out.symbols, start |-> r.out.start,
              end |-> r.out.end, raised |-> r.out.raised, served |-> r.out.served,
              fetched |-> r.out.fetched, touched |-> r.out.touched,
              rows |-> r.out.rows, adjusted |-> adjusted,
              row_prices |->
                  IF r.out.raised # None THEN EmptyDict
                  ELSE row_prices(c, r.out.served,
                                  IF r.out.fetched = Nothing THEN <<>>
                                  ELSE r.out.fetched[1],
                                  start, end, adjusted, provider)]]

\* get_prices, steps 2 and 3, given the outcome chk of step 1 and the
\* outcome f of _fetch_and_cache
get_prices_result(c, syms, start, end, provider, chk, f) ==
    IF f.raised # None
    THEN [cache |-> f.cache,
          out |-> CacheOutcome("get_prices", syms, start, end, f.raised, chk.served,
                               Some(chk.symbols_to_fetch), chk.touched \cup f.touched, {})]
    ELSE IF served_rows(c, chk.served, start, end)
              \cup fetched_rows(chk.symbols_to_fetch, start, end, provider) = {}
    THEN [cache |-> f.cache,
          out |-> CacheOutcome("get_prices", syms, start, end,
                               "InsufficientDataError", chk.served,
                               Some(chk.symbols_to_fetch), chk.touched \cup f.touched, {})]
    ELSE [cache |-> f.cache,
          out |-> CacheOutcome("get_prices", syms, start, end, None, chk.served,
                               Some(chk.symbols_to_fetch), chk.touched \cup f.touched,
                               served_rows(c, chk.served, start, end)
                                 \cup fetched_rows(chk.symbols_to_fetch, start, end, provider))]

get_prices_fetch(c, syms, start, end, adjusted, provider, chk) ==
    IF chk.raised # None
    THEN [cache |-> c,
          out |-> CacheOutcome("get_prices", syms, start, end, chk.raised,
                               chk.served, Nothing, chk.touched, {})]
    ELSE IF chk.symbols_to_fetch = <<>>
    THEN [cache |-> c,
          out |-> CacheOutcome("get_prices", syms, start, end, None,
                               chk.served, Nothing, chk.touched,
                               served_rows(c, chk.served, start, end))]
    ELSE get_prices_result(c, syms, start, end, provider, chk,
                           fetch_and_cache(c, chk.symbols_to_fetch, start, end,
                                           adjusted, provider))

\* CSVCache.get_prices
get_prices(c, syms, start, end, adjusted, provider) ==
    PricedOutcome(
        c,
        IF syms = <<>>
        THEN [cache |-> c,
              out |-> CacheOutcome("get_prices", syms, start, end,
                                   "InsufficientDataError", <<>>, Nothing, {}, {})]
        ELSE get_prices_fetch(c, syms, start, end, adjusted, provider,
                              check_cache(c, syms, start, end,
                                          [raised |-> None, served |-> <<>>,
                                           symbols_to_fetch |-> <<>>, touched |-> {}])),
        start, end, adjusted, provider)

\* clear_cache(syms): unlink the file of each symbol, drop its record
RECURSIVE clear_symbols(_, _)
clear_symbols(r, syms) ==
    IF syms = <<>> \/ r.raised # None THEN r
    ELSE IF get_cache_path(upper(Head(syms))).raised # None
    THEN [r EXCEPT !.raised = get_cache_path(upper(Head(syms))).raised]
    ELSE clear_symbols(
            [r EXCEPT !.cache.files = DictDel(@, get_cache_path(upper(Head(syms))).path),
                      !.cache.adjusted = DictDel(@, get_cache_path(upper(Head(syms))).path),
                      !.cache.metadata = metadata_remove(@, Head(syms)),
                      !.touched = @ \cup {get_cache_path(upper(Head(syms))).path}],
            Tail(syms))

\* CSVCache.clear_cache; syms = Nothing clears every *.csv file
clear_cache(c, syms) ==
    IF syms = Nothing
    THEN [cache |-> [c EXCEPT !.files = EmptyDict, !.adjusted = EmptyDict,
                              !.metadata = EmptyDict],
          out |-> CacheOutcome("clear_cache", syms, 0, 0, None, <<>>, Nothing,
                               DOMAIN c.files, {})]
    ELSE [cache |-> clear_symbols([raised |-> None, cache |-> c, touched |-> {}], syms[1]).cache,
          out |-> CacheOutcome("clear_cache", syms, 0, 0,
                               clear_symbols([raised |-> None, cache |-> c, touched |-> {}],
                                             syms[1]).raised,
                               <<>>, Nothing,
                               clear_symbols([raised |-> None, cache |-> c, touched |-> {}],
                                             syms[1]).touched, {})]

\* ------------------------------------------------------------------------
\* results.metrics: _calculate_drawdown
\* ------------------------------------------------------------------------
\* np.maximum.accumulate(equity_values)[i]
RECURSIVE running_max(_, _)
running_max(equity_values, i) ==
    IF i = 1 THEN equity_values[1]
    ELSE RMax(running_max(equity_values, i - 1), equity_values[i])

\* np.max(drawdowns) over the points 1..i
RECURSIVE max_drawdown(_, _)
max_drawdown(equity_values, i) ==
    IF i = 0 THEN Zero
    ELSE RMax(max_drawdown(equity_values, i - 1),
              RDiv(RSub(running_max(equity_values, i), equity_values[i]),
                   running_max(equity_values, i)))

\* the loop over the points from i on; acc = [max_dd_duration,
\* current_dd_start], current_dd_start an index (from 1) or Nothing
RECURSIVE drawdown_loop(_, _, _, _)
drawdown_loop(equity_values, dates, i, acc) ==
    IF i > Len(equity_values) THEN acc
    ELSE IF RLt(equity_values[i], running_max(equity_values, i))
    THEN drawdown_loop(equity_values, dates, i + 1,
                       IF acc.current_dd_start = Nothing
                       THEN [acc EXCEPT !.current_dd_start = Some(i)]
                       ELSE acc)
    ELSE drawdown_loop(equity_values, dates, i + 1,
                       IF acc.current_dd_start # Nothing
                       THEN [max_dd_duration |->
                                 IF dates[i] - dates[acc.current_dd_start[1]] > acc.max_dd_duration
                                 THEN dates[i] - dates[acc.current_dd_start[1]]
                                 ELSE acc.max_dd_duration,
                             current_dd_start |-> Nothing]
                       ELSE acc)

\* the check after the loop: still in drawdown at the end
drawdown_at_end(dates, acc) ==
    IF acc.current_dd_start # Nothing
       /\ dates[Len(dates)] - dates[acc.current_dd_start[1]] > acc.max_dd_duration
    THEN dates[Len(dates)] - dates[acc.current_dd_start[1]]
    ELSE acc.max_dd_duration

\* _calculate_drawdown without the check after the loop
calculate_drawdown_noend(equity_values, dates) ==
    IF Len(equity_values) < 2 THEN [max_drawdown |-> Zero, max_dd_duration |-> 0]
    ELSE [max_drawdown |-> max_drawdown(equity_values, Len(equity_values)),
          max_dd_duration |->
              drawdown_loop(equity_values, dates, 1,
                            [max_dd_duration |-> 0,
                             current_dd_start |-> Nothing]).max_dd_duration]

\* _calculate_drawdown: (max_drawdown, max_dd_duration)
calculate_drawdown(equity_values, dates) ==
    IF Len(equity_values) < 2 THEN [max_drawdown |-> Zero, max_dd_duration |-> 0]
    ELSE [max_drawdown |-> max_drawdown(equity_values, Len(equity_values)),
          max_dd_duration |->
              drawdown_at_end(dates,
                              drawdown_loop(equity_values, dates, 1,
                                            [max_dd_duration |-> 0,
                                             current_dd_start |-> Nothing]))]

\* ------------------------------------------------------------------------
\* analysis.risk_analysis: analyze_drawdowns
\* ------------------------------------------------------------------------
DrawdownPeriod(start_date, trough_date, recovery_date, peak_equity, trough_equity, drawdown_pct, duration_days, recovery_days) ==
    [start_date |-> start_date, trough_date |-> trough_date,
     recovery_date |-> recovery_date, peak_equity |-> peak_equity,
     trough_equity |-> trough_equity, drawdown_pct |-> drawdown_pct,
     duration_days |-> duration_days, recovery_days |-> recovery_days]

\* drawdown = (equity - running_max) / running_max at point i
drawdown_at(curve, i) ==
    RDiv(RSub(curve[i], running_max(curve, i)), running_max(curve, i))

\* the state of the loop before the first point; the indexes are positions
\* of the curve
NoDrawdown ==
    [periods |-> <<>>, in_drawdown |-> FALSE, start_idx |-> 0,
     peak_value |-> Zero, trough_idx |-> 0, trough_value |-> Zero]

\* "New trough": the test and the assignments of the branch elif in_drawdown
new_trough(curve, i, acc) ==
    IF RLt(drawdown_at(curve, i),
           RDiv(RSub(curve[i], acc.peak_value), acc.peak_value))
    THEN [acc EXCEPT !.trough_idx = i, !.trough_value = curve[i]]
    ELSE acc

\* "Recovered": the period appended at point i
recovered_period(dates, i, acc) ==
    DrawdownPeriod(dates[acc.start_idx], dates[acc.trough_idx], Some(dates[i]),
                   acc.peak_value, acc.trough_value,
                   RDiv(RSub(acc.trough_value, acc.peak_value), acc.peak_value),
                   dates[i] - dates[acc.start_idx],
                   Some(dates[i] - dates[acc.trough_idx]))

\* the body of the loop over drawdown.items() at point i
drawdown_step(curve, dates, i, acc) ==
    IF ~acc.in_drawdown /\ RLt(drawdown_at(curve, i), Zero)
    THEN [acc EXCEPT !.in_drawdown = TRUE, !.start_idx = i,
                     !.peak_value = running_max(curve, i),
                     !.trough_idx = i, !.trough_value = curve[i]]
    ELSE IF acc.in_drawdown
    THEN IF RGe(drawdown_at(curve, i), Zero)
         THEN [new_trough(curve, i, acc) EXCEPT
                   !.periods = Append(@, recovered_period(dates, i,
                                                          new_trough(curve, i, acc))),
                   !.in_drawdown = FALSE]
         ELSE new_trough(curve, i, acc)
    ELSE acc

RECURSIVE drawdown_periods_from(_, _, _, _)
drawdown_periods_from(curve, dates, i, acc) ==
    IF i > Len(curve) THEN acc
    ELSE drawdown_periods_from(curve, dates, i + 1,
                               drawdown_step(curve, dates, i, acc))

\* "Handle ongoing drawdown at end"
ongoing_period(dates, acc) ==
    IF acc.in_drawdown
    THEN Append(acc.periods,
                DrawdownPeriod(dates[acc.start_idx], dates[acc.trough_idx], Nothing,
                               acc.peak_value, acc.trough_value,
                               RDiv(RSub(acc.trough_value, acc.peak_value),
                                    acc.peak_value),
                               dates[Len(dates)] - dates[acc.start_idx], Nothing))
    ELSE acc.periods

\* analyze_drawdowns(equity_curve): the curve as its equity column and its
\* date column
analyze_drawdowns(curve, dates) ==
    IF Len(curve) < 2 THEN <<>>
    ELSE ongoing_period(dates, drawdown_periods_from(curve, dates, 1, NoDrawdown))

\* ------------------------------------------------------------------------
\* State
\* ------------------------------------------------------------------------
VARIABLES
    pit,            \* the PointInTimeDataFrame handed to run() / under test
    pit_out,        \* outcome of the last operation on pit
    portfolio,      \* the Portfolio
    api,            \* outcome of the last direct Portfolio call
    ops,            \* number of direct calls made so far
    config,         \* BacktestRunner.config
    pc,             \* position of run()
    current_pit,    \* run(): current_pit
    trading_dates,  \* run(): trading_dates
    bar,            \* run(): index of current_date in trading_dates
    prices,         \* _process_bar: prices
    signal,         \* _process_bar: signal
    trades,         \* _process_bar: trades not yet logged
    trade_log,      \* BacktestRunner.trade_log
    error,          \* the exception run() raised
    trace,          \* history: the steps of _process_bar performed, in order
    applied,        \* history: the trades applied to the portfolio, in order
    fills,          \* history: the trades passed to strategy.on_fill, in order
    strategy,       \* BacktestRunner.strategy: the state of the strategy object
    emitted,        \* history: the signals on_bar returned, with their bars
    first_run,      \* history: what the previous run() on this runner left
    heap,           \* the PointInTimeDataFrame objects and their DataFrames
    cache,          \* the CSVCache: its files, its metadata, the clock
    cache_out       \* outcome of the last operation on cache

vars == <<pit, pit_out, portfolio, api, ops, config, pc, current_pit,
          trading_dates, bar, prices, signal, trades, trade_log, error, trace,
          applied, fills, strategy, emitted, first_run, heap, cache, cache_out>>

pitVars == <<pit, pit_out, heap>>
cacheVars == <<cache, cache_out>>
stratVars == <<strategy, emitted, first_run>>
runVars == <<config, pc, current_pit, trading_dates, bar, prices, signal,
             trades, trade_log, error, trace, applied, fills, stratVars>>

NoError == [type |-> None, cause |-> None]

\* a strategy object without fields of its own
NoStrategy == [kind |-> "any"]

\* no CSVCache has been constructed
NoCache == [files |-> EmptyDict, adjusted |-> EmptyDict, metadata |-> EmptyDict, expiry_days |-> 0, now |-> 0]

\* no PointInTimeDataFrame object has been constructed
NoHeap == [objects |-> <<>>, frames |-> <<>>, born |-> <<>>, result |-> 0, last |-> "none"]

\* ------------------------------------------------------------------------
\* Inputs of the runner
\* ------------------------------------------------------------------------
InitialCapital == Float(20)
CapitalPerPair == Float(8)
StartDate == 2

Configs ==
    {BacktestConfig(StartDate, MaxDate, InitialCapital, CapitalPerPair, col, cm) :
        col \in {"close", "adj_close"},
        cm \in {ZeroCommission, PerShareCommission}}

\* reference dates of the PointInTimeDataFrame handed to run()
InitialRefs == {StartDate - 1, StartDate, StartDate + 1}

\* the signals a strategy returns from on_bar
StrategySignals ==
    { PairSignal(OPEN_PAIR, "A", "B", Float(1), None),
      PairSignal(OPEN_PAIR, "B", "A", Float(3), None),
      PairSignal(CLOSE_PAIR, "A", "B", Float(1), None),
      PairSignal(CLOSE_PAIR, "B", "A", Float(1), None),
      PairSignal(CLOSE_PAIR, "B", "A", Float(1), "A_B"),
      WeightSignal(<<<<"A", Q(1, 2)>>, <<"B", Q(-1, 2)>>>>),
      WeightSignal(<<<<"B", Float(1)>>>>),
      WeightSignal(<<<<"A", Q(1, 2)>>, <<"B", Float(1)>>>>) }

RunDefaults ==
    /\ pc = "idle"
    /\ current_pit = PointInTimeDataFrame(<<>>, 0)
    /\ trading_dates = <<>>
    /\ bar = 0
    /\ prices = EmptyDict
    /\ signal = NoSignal
    /\ trades = <<>>
    /\ trade_log = <<>>
    /\ error = NoError
    /\ trace = <<>>
    /\ applied = <<>>
    /\ fills = <<>>
    /\ emitted = <<>>
    /\ first_run = Nothing
    /\ heap = NoHeap
    /\ cache = NoCache
    /\ cache_out = [op |-> "none"]

NoOutcome == [op |-> "none"]

Init ==
    /\ pit \in {PointInTimeDataFrame(t, r) : t \in Tables, r \in InitialRefs}
    /\ pit_out = NoOutcome
    /\ config \in Configs
    /\ ConfigValid(config)
    /\ portfolio = Portfolio(config.initial_capital)
    /\ api = NoOutcome
    /\ ops = 0
    /\ strategy = NoStrategy
    /\ RunDefaults

\* ------------------------------------------------------------------------
\* BacktestRunner.run
\* ------------------------------------------------------------------------
current_date == trading_dates[bar]

\* a step of _process_bar on date d; sig is the kind of signal on_bar returned
Event(ev, d, sig) == [ev |-> ev, date |-> d, sig |-> sig]

Fail(type, cause) ==
    /\ pc' = "failed"
    /\ error' = [type |-> type, cause |-> cause]

NumSignals == Cardinality({i \in 1..Len(trace) : trace[i].ev = "execute"})

\* run(): reset, on_start, trading dates, entry of the loop
RunStart ==
    /\ pc = "idle"
    /\ portfolio' = reset(portfolio)
    /\ trade_log' = <<>>
    /\ \E on_start_raises \in BOOLEAN :
         IF on_start_raises
         THEN /\ Fail("Exception", "on_start")
              /\ UNCHANGED <<trading_dates, current_pit, bar>>
         ELSE /\ trading_dates' = get_trading_dates(pit, config)
              /\ IF trading_dates' = <<>>
                 THEN /\ Fail("BacktestError", "no trading dates")
                      /\ UNCHANGED <<current_pit, bar>>
                 ELSE /\ current_pit' = run_initial_pit(pit, config)
                      /\ bar' = 1
                      /\ pc' = "update_prices"
                      /\ UNCHANGED error
    /\ UNCHANGED <<pitVars, cacheVars, stratVars, api, ops, config, prices, signal, trades, trace,
                   applied, fills>>

\* _process_bar: prices = _get_current_prices(...); portfolio.update_prices
BarUpdatePrices ==
    /\ pc = "update_prices"
    /\ prices' = get_current_prices(current_pit, config)
    /\ portfolio' = update_prices(portfolio, prices')
    /\ trace' = Append(trace, Event("update_prices", current_date, "none"))
    /\ pc' = next_step("update_prices", signal, <<>>)
    /\ UNCHANGED <<pitVars, cacheVars, stratVars, api, ops, config, current_pit, trading_dates, bar,
                   signal, trades, trade_log, error, applied, fills>>

\* _process_bar: signal = strategy.on_bar(current_date, pit_data)
BarOnBar ==
    /\ pc = "on_bar"
    /\ \/ /\ signal' = NoSignal
          /\ pc' = next_step("on_bar", signal', <<>>)
          /\ trace' = Append(trace, Event("on_bar", current_date, "none"))
          /\ UNCHANGED error
       \/ /\ NumSignals < MaxSignals
          /\ signal' \in StrategySignals
          /\ pc' = next_step("on_bar", signal', <<>>)
          /\ trace' = Append(trace, Event("on_bar", current_date, signal'.kind))
          /\ UNCHANGED error
       \/ /\ Fail("StrategyError", "on_bar")
          /\ trace' = Append(trace, Event("on_bar", current_date, "raised"))
          /\ UNCHANGED signal
    /\ UNCHANGED <<pitVars, cacheVars, stratVars, portfolio, api, ops, config, current_pit,
                   trading_dates, bar, prices, trades, trade_log, applied, fills>>

\* _process_bar: trades = self._execute_signal(signal, current_date, prices)
BarExecute ==
    /\ pc = "execute"
    /\ LET r == execute_signal(config, signal, current_date, prices, portfolio)
       IN  /\ portfolio' = r.pf
           /\ applied' = applied \o r.applied
           /\ trace' = Append(trace, Event("execute", current_date, signal.kind))
           /\ IF r.raised # None
              THEN /\ Fail("BacktestError", r.raised)
                   /\ UNCHANGED trades
              ELSE /\ trades' = r.trades
                   /\ pc' = next_step("execute", signal, trades')
                   /\ UNCHANGED error
    /\ UNCHANGED <<pitVars, cacheVars, stratVars, api, ops, config, current_pit, trading_dates, bar,
                   prices, signal, trade_log, fills>>

\* the loop over trades left after its first turn
BarFill_first ==
    /\ pc = "fill"
    /\ trades # <<>>
    /\ trade_log' = Append(trade_log, Head(trades))
    /\ fills' = Append(fills, Head(trades))
    /\ \/ /\ trades' = <<>>
          /\ pc' = next_step("fill", signal, trades')
          /\ UNCHANGED error
       \/ /\ Fail("BacktestError", "on_fill")
          /\ UNCHANGED trades
    /\ UNCHANGED <<pitVars, cacheVars, stratVars, portfolio, api, ops, config, current_pit,
                   trading_dates, bar, prices, signal, trace, applied>>

\* _process_bar, one turn of the loop over trades:
\* trade_log.add_trade(trade); strategy.on_fill(trade)
BarFill ==
    /\ pc = "fill"
    /\ trades # <<>>
    /\ trade_log' = Append(trade_log, Head(trades))
    /\ fills' = Append(fills, Head(trades))
    /\ \/ /\ trades' = Tail(trades)
          /\ pc' = next_step("fill", signal, trades')
          /\ UNCHANGED error
       \/ /\ Fail("BacktestError", "on_fill")
          /\ UNCHANGED trades
    /\ UNCHANGED <<pitVars, cacheVars, stratVars, portfolio, api, ops, config, current_pit,
                   trading_dates, bar, prices, signal, trace, applied>>

\* _process_bar: portfolio.record_equity(current_date)
BarRecordEquity ==
    /\ pc = "record_equity"
    /\ portfolio' = record_equity(portfolio, current_date)
    /\ trace' = Append(trace, Event("record_equity", current_date, "none"))
    /\ pc' = next_step("record_equity", signal, <<>>)
    /\ UNCHANGED <<pitVars, cacheVars, stratVars, api, ops, config, current_pit, trading_dates, bar,
                   prices, signal, trades, trade_log, error, applied, fills>>

\* run(): current_pit = current_pit.advance_to(current_date); next date
BarAdvance ==
    /\ pc = "end_bar"
    /\ LET r == advance_to(current_pit, current_date)
       IN  IF r.raised # None
           THEN /\ Fail("BacktestError", r.raised)
                /\ UNCHANGED <<current_pit, bar>>
           ELSE /\ current_pit' = r.pit
                /\ UNCHANGED error
                /\ IF bar < Len(trading_dates)
                   THEN bar' = bar + 1 /\ pc' = "update_prices"
                   ELSE bar' = bar /\ pc' = "on_end"
    /\ UNCHANGED <<pitVars, cacheVars, stratVars, portfolio, api, ops, config, trading_dates, prices,
                   signal, trades, trade_log, trace, applied, fills>>

\* run(): strategy.on_end(); metrics; return
RunEnd ==
    /\ pc = "on_end"
    /\ \/ pc' = "done" /\ UNCHANGED error
       \/ Fail("Exception", "on_end")
    /\ UNCHANGED <<pitVars, cacheVars, stratVars, portfolio, api, ops, config, current_pit,
                   trading_dates, bar, prices, signal, trades, trade_log, trace,
                   applied, fills>>

Next ==
    \/ RunStart
    \/ BarUpdatePrices
    \/ BarOnBar
    \/ BarExecute
    \/ BarFill
    \/ BarRecordEquity
    \/ BarAdvance
    \/ RunEnd

Spec == Init /\ [][Next]_vars

\* ------------------------------------------------------------------------
\* Operations on a point-in-time view, called directly
\* ------------------------------------------------------------------------
PitOutcome(op, p, raised, rows) ==
    [op |-> op, pit |-> p, raised |-> raised, rows |-> rows]

PitRefs == 0..MaxDate

PitInit ==
    /\ pit \in {PointInTimeDataFrame(t, r) : t \in Tables, r \in PitRefs}
    /\ pit_out = PitOutcome("none", pit, None, <<>>)
    /\ config = BacktestConfig(StartDate, MaxDate, InitialCapital, CapitalPerPair,
                               "adj_close", ZeroCommission)
    /\ portfolio = Portfolio(config.initial_capital)
    /\ api = NoOutcome
    /\ ops = 0
    /\ strategy = NoStrategy
    /\ RunDefaults

PitGetData ==
    /\ pit_out' = PitOutcome("get_data", pit, None, get_data(pit))
    /\ UNCHANGED <<pit, heap, portfolio, api, ops, runVars, cacheVars>>

PitForSymbol ==
    /\ \E s \in {"A", "B", "a", "C"} :
         pit_out' = PitOutcome("for_symbol", pit, None, for_symbol(pit, s))
    /\ UNCHANGED <<pit, heap, portfolio, api, ops, runVars, cacheVars>>

PitGetLatest ==
    /\ \E s \in {None, "A", "b"} :
         \E r \in get_latest(pit, s) :
            pit_out' = PitOutcome("get_latest", pit, None, r)
    /\ UNCHANGED <<pit, heap, portfolio, api, ops, runVars, cacheVars>>

PitSlice ==
    /\ \E start \in Dates, e \in {Nothing} \cup {Some(d) : d \in Dates} :
         LET r == slice(pit, start, e)
         IN  pit_out' = PitOutcome("slice", pit, r.raised, r.rows)
    /\ UNCHANGED <<pit, heap, portfolio, api, ops, runVars, cacheVars>>

PitAdvanceTo ==
    /\ \E n \in PitRefs :
         LET r == advance_to(pit, n)
         IN  /\ pit' = r.pit
             /\ pit_out' = [op |-> "advance_to", pit |-> pit,
                            raised |-> r.raised, rows |-> <<>>, new_date |-> n]
    /\ UNCHANGED <<heap, portfolio, api, ops, runVars, cacheVars>>

PitNext ==
    \/ PitGetData
    \/ PitForSymbol
    \/ PitGetLatest
    \/ PitSlice
    \/ PitAdvanceTo

PitSpec == PitInit /\ [][PitNext]_vars

\* ------------------------------------------------------------------------
\* PointInTimeDataFrame objects and the DataFrame objects they refer to
\* ------------------------------------------------------------------------
\* heap.objects[h] is the object h: [df, reference_date], df an index into
\* heap.frames; heap.born[h] is what h showed when it was constructed;
\* heap.result is the DataFrame the last get_data returned (0: none).
MaxObjects == 2
MaxFrames == 4

\* the object h as a value
Deref(hp, h) ==
    PointInTimeDataFrame(hp.frames[hp.objects[h].df], hp.objects[h].reference_date)

\* PointInTimeDataFrame(df, reference_date) on the heap: self._df = df.copy()
New(hp, df, reference_date, op) ==
    [objects |-> Append(hp.objects,
                        [df |-> Len(hp.frames) + 1,
                         reference_date |-> reference_date]),
     frames |-> Append(hp.frames, df),
     born |-> Append(hp.born,
                     [reference_date |-> reference_date,
                      rows |-> get_data(PointInTimeDataFrame(df, reference_date))]),
     result |-> 0,
     last |-> op]

ObjInit ==
    /\ \E t \in Tables, r \in PitRefs :
         heap = New([objects |-> <<>>, frames |-> <<t>>, born |-> <<>>,
                     result |-> 0, last |-> "none"], t, r, "new")
    /\ pit = PointInTimeDataFrame(<<>>, 0)
    /\ pit_out = NoOutcome
    /\ config = BacktestConfig(StartDate, MaxDate, InitialCapital, CapitalPerPair,
                               "adj_close", ZeroCommission)
    /\ portfolio = Portfolio(config.initial_capital)
    /\ api = NoOutcome
    /\ ops = 0
    /\ strategy = NoStrategy
    /\ pc = "idle"
    /\ current_pit = PointInTimeDataFrame(<<>>, 0)
    /\ trading_dates = <<>>
    /\ bar = 0
    /\ prices = EmptyDict
    /\ signal = NoSignal
    /\ trades = <<>>
    /\ trade_log = <<>>
    /\ error = NoError
    /\ trace = <<>>
    /\ applied = <<>>
    /\ fills = <<>>
    /\ emitted = <<>>
    /\ first_run = Nothing
    /\ cache = NoCache
    /\ cache_out = NoOutcome

\* advance_to written as an update of the receiver
ObjAdvanceTo_inplace ==
    /\ Len(heap.objects) < MaxObjects
    /\ Len(heap.frames) < MaxFrames
    /\ \E h \in 1..Len(heap.objects), n \in PitRefs :
         LET r == advance_to(Deref(heap, h), n)
         IN  IF r.raised # None
             THEN heap' = [heap EXCEPT !.last = "raised"]
             ELSE heap' = [heap EXCEPT !.objects[h].reference_date = n,
                                       !.last = "advance_to"]
    /\ UNCHANGED <<pit, pit_out, portfolio, api, ops, runVars, cacheVars>>

\* p2 = p.advance_to(n) for an object p: a new object with its own DataFrame
ObjAdvanceTo ==
    /\ Len(heap.objects) < MaxObjects
    /\ Len(heap.frames) < MaxFrames
    /\ \E h \in 1..Len(heap.objects), n \in PitRefs :
         LET r == advance_to(Deref(heap, h), n)
         IN  IF r.raised # None
             THEN heap' = [heap EXCEPT !.last = "raised"]
             ELSE heap' = New(heap, r.pit.df, r.pit.reference_date, "advance_to")
    /\ UNCHANGED <<pit, pit_out, portfolio, api, ops, runVars, cacheVars>>

\* data = p.get_data(): a new DataFrame, self._df[mask].copy()
ObjGetData ==
    /\ Len(heap.frames) < MaxFrames
    /\ \E h \in 1..Len(heap.objects) :
         heap' = [heap EXCEPT !.frames = Append(@, get_data(Deref(heap, h))),
                              !.result = Len(heap.frames) + 1,
                              !.last = "get_data"]
    /\ UNCHANGED <<pit, pit_out, portfolio, api, ops, runVars, cacheVars>>

\* the caller writes into the DataFrame get_data returned to it
ObjWriteResult ==
    /\ heap.result # 0
    /\ heap.frames[heap.result] # <<>>
    /\ heap' = [heap EXCEPT !.frames[heap.result] = <<>>, !.last = "write"]
    /\ UNCHANGED <<pit, pit_out, portfolio, api, ops, runVars, cacheVars>>

ObjNext ==
    \/ ObjAdvanceTo
    \/ ObjGetData
    \/ ObjWriteResult

ObjSpec == ObjInit /\ [][ObjNext]_vars

\* ------------------------------------------------------------------------
\* Operations on a Portfolio, called directly
\* ------------------------------------------------------------------------
ApiCapital == Float(6)

ApiOutcome(op, raised, trade, long_trade, short_trade, pair_id) ==
    [op |-> op, raised |-> raised, trade |-> trade, long_trade |-> long_trade,
     short_trade |-> short_trade, pair_id |-> pair_id]

ApiShares == {Float(1), Float(2)}
ApiPrices == {Float(1), Float(3)}
ApiFees == {Float(0), Float(1)}
ApiPairs == {<<"A", "B">>, <<"B", "A">>}

ApiTrades ==
    {Trade(1, s, side, n, p, c, None) :
        s \in Symbols, side \in {LONG, SHORT}, n \in ApiShares, p \in ApiPrices,
        c \in ApiFees}

NoTrade == Trade(0, None, None, Zero, Zero, Zero, None)

\* portfolios the calls start from: a new one, one holding a pair and one
\* holding a long position
ApiSeeds ==
    { Portfolio(ApiCapital),
      open_pair(Portfolio(ApiCapital), "A_B",
                Trade(1, "A", LONG, Float(2), Float(1), Zero, "A_B"),
                Trade(1, "B", SHORT, Float(1), Float(3), Zero, "A_B"),
                Float(1), 1).pf,
      execute_trade(Portfolio(ApiCapital),
                    Trade(1, "A", LONG, Float(2), Float(1), Zero, None)).pf }

PortfolioInit ==
    /\ pit = PointInTimeDataFrame(<<>>, 0)
    /\ pit_out = NoOutcome
    /\ config = BacktestConfig(StartDate, MaxDate, ApiCapital, ApiCapital,
                               "adj_close", ZeroCommission)
    /\ portfolio \in ApiSeeds
    /\ api = ApiOutcome("none", None, NoTrade, NoTrade, NoTrade, None)
    /\ ops = 0
    /\ strategy = NoStrategy
    /\ RunDefaults

ApiExecuteTrade ==
    /\ ops < MaxOps
    /\ \E t \in ApiTrades :
         /\ TradeValid(t.shares, t.price, t.commission)
         /\ LET r == execute_trade(portfolio, t)
            IN  /\ portfolio' = r.pf
                /\ api' = ApiOutcome("execute_trade", r.raised, t, NoTrade,
                                     NoTrade, None)
    /\ ops' = ops + 1
    /\ UNCHANGED <<pitVars, cacheVars, runVars>>

ApiOpenPair ==
    /\ ops < MaxOps
    /\ \E pr \in ApiPairs, ln \in ApiShares, lp \in ApiPrices, c \in ApiFees :
         LET pair_id == pr[1] \o "_" \o pr[2]
             sp == Float(3)
             lt == Trade(1, pr[1], LONG, ln, lp, c, pair_id)
             st == Trade(1, pr[2], SHORT, ln, sp, c, pair_id)
             r == open_pair(portfolio, pair_id, lt, st, Float(1), 1)
         IN  /\ portfolio' = r.pf
             /\ api' = ApiOutcome("open_pair", r.raised, NoTrade, lt, st, pair_id)
    /\ ops' = ops + 1
    /\ UNCHANGED <<pitVars, cacheVars, runVars>>

ApiClosePair ==
    /\ ops < MaxOps
    /\ \E pr \in ApiPairs, lp \in ApiPrices, sp \in ApiPrices, c \in ApiFees :
         LET pair_id == pr[1] \o "_" \o pr[2]
             ln == Float(1)
             lt == Trade(2, pr[1], SHORT, ln, lp, c, pair_id)
             st == Trade(2, pr[2], LONG, ln, sp, c, pair_id)
             r == close_pair(portfolio, pair_id, lt, st)
         IN  /\ portfolio' = r.pf
             /\ api' = ApiOutcome("close_pair", r.raised, NoTrade, lt, st, pair_id)
    /\ ops' = ops + 1
    /\ UNCHANGED <<pitVars, cacheVars, runVars>>

ApiUpdatePrices ==
    /\ ops < MaxOps
    /\ \E S \in SUBSET Symbols :
         \E px \in [S -> ApiPrices] :
            /\ portfolio' = update_prices(portfolio, px)
            /\ api' = ApiOutcome("update_prices", None, NoTrade, NoTrade, NoTrade,
                                 None)
    /\ ops' = ops + 1
    /\ UNCHANGED <<pitVars, cacheVars, runVars>>

PortfolioNext ==
    \/ ApiExecuteTrade
    \/ ApiOpenPair
    \/ ApiClosePair
    \/ ApiUpdatePrices

PortfolioSpec == PortfolioInit /\ [][PortfolioNext]_vars

\* ------------------------------------------------------------------------
\* BacktestRunner.run with a GGRDistanceStrategy, called twice
\* ------------------------------------------------------------------------
\* Calendar of these runs: rows are dated 1..GgrMaxDate.
GgrMaxDate == 7
\* the values of max_holding_days
MaxHolding == 2

GgrSymbols == <<"A", "B", "C">>

GgrFlat == [d \in 1..GgrMaxDate |-> 2]
GgrJump == [d \in 1..GgrMaxDate |-> IF d <= StartDate THEN 2 ELSE 4]
GgrSpike ==
    [d \in 1..GgrMaxDate |-> IF d = 1 THEN 1 ELSE IF d = StartDate + 1 THEN 4 ELSE 2]
GgrLate ==
    [d \in 1..GgrMaxDate |-> IF d = 1 THEN 4 ELSE IF d <= StartDate + 1 THEN 2 ELSE 1]

\* doubles twice, two dates apart
GgrStep ==
    [d \in 1..GgrMaxDate |->
        IF d <= StartDate THEN 2 ELSE IF d <= StartDate + 2 THEN 4 ELSE 8]

GgrPaths == {GgrFlat, GgrJump, GgrSpike, GgrLate}

\* the rows of symbol s, dates 1..GgrMaxDate in order
GgrRows(s, path) == [d \in 1..GgrMaxDate |-> Row(s, d, path[d] + 1, path[d])]

\* tables sorted by symbol and date, some with a missing row
GgrTables ==
    LET full == {GgrRows("A", pa) \o GgrRows("B", pb) \o GgrRows("C", pc_) :
                    pa \in GgrPaths, pb \in GgrPaths, pc_ \in GgrPaths}
        stepped == {GgrRows("A", GgrStep) \o GgrRows("B", pb) \o GgrRows("C", pc_) :
                       pb \in {GgrFlat, GgrJump}, pc_ \in GgrPaths}
    IN  full \cup stepped
             \cup {DropRow(t, "B", StartDate + 1) :
                      t \in {GgrRows("A", GgrJump) \o GgrRows("B", GgrFlat)
                                \o GgrRows("C", pc_) : pc_ \in GgrPaths}}

GgrStrategies ==
    {GGRDistanceStrategy(GgrSymbols, 2, 3, Float(1), Q(1, 2), h, 3, Q(1, 2)) :
        h \in 1..MaxHolding}

GgrInit ==
    /\ pit \in {PointInTimeDataFrame(t, r) :
                  t \in GgrTables, r \in {StartDate - 1, StartDate}}
    /\ pit_out = NoOutcome
    /\ config = BacktestConfig(StartDate, GgrMaxDate, InitialCapital,
                               CapitalPerPair, "adj_close", PerShareCommission)
    /\ ConfigValid(config)
    /\ portfolio = Portfolio(config.initial_capital)
    /\ api = NoOutcome
    /\ ops = 0
    /\ strategy \in GgrStrategies
    /\ RunDefaults

\* run(): reset, strategy.on_start, trading dates, entry of the loop
GgrRunStart ==
    /\ pc = "idle"
    /\ portfolio' = reset(portfolio)
    /\ trade_log' = <<>>
    /\ strategy' = on_start(strategy)
    /\ trading_dates' = get_trading_dates(pit, config)
    /\ IF trading_dates' = <<>>
       THEN /\ Fail("BacktestError", "no trading dates")
            /\ UNCHANGED <<current_pit, bar>>
       ELSE /\ current_pit' = run_initial_pit(pit, config)
            /\ bar' = 1
            /\ pc' = "update_prices"
            /\ UNCHANGED error
    /\ UNCHANGED <<pitVars, cacheVars, api, ops, config, prices, signal, trades, trace,
                   applied, fills, emitted, first_run>>

\* _process_bar: signal = strategy.on_bar(current_date, pit_data)
GgrOnBar ==
    /\ pc = "on_bar"
    /\ \E r \in {on_bar(strategy, current_date, current_pit)} :
          /\ strategy' = r.strategy
          /\ signal' = r.signal
    /\ emitted' = IF signal' = NoSignal THEN emitted
                  ELSE Append(emitted, [bar |-> bar, signal |-> signal'])
    /\ pc' = next_step("on_bar", signal', <<>>)
    /\ trace' = Append(trace, Event("on_bar", current_date, signal'.kind))
    /\ UNCHANGED <<pitVars, cacheVars, portfolio, api, ops, config, current_pit,
                   trading_dates, bar, prices, trades, trade_log, error,
                   applied, fills, first_run>>

\* _process_bar, one turn of the loop over trades:
\* trade_log.add_trade(trade); strategy.on_fill(trade)
GgrFill ==
    /\ pc = "fill"
    /\ trades # <<>>
    /\ trade_log' = Append(trade_log, Head(trades))
    /\ fills' = Append(fills, Head(trades))
    /\ strategy' = on_fill(strategy, Head(trades))
    /\ trades' = Tail(trades)
    /\ pc' = next_step("fill", signal, trades')
    /\ UNCHANGED <<pitVars, cacheVars, portfolio, api, ops, config, current_pit,
                   trading_dates, bar, prices, signal, error, trace, applied,
                   emitted, first_run>>

\* run(): strategy.on_end() (BaseStrategy: no-op); metrics; return
GgrRunEnd ==
    /\ pc = "on_end"
    /\ pc' = "done"
    /\ UNCHANGED <<pitVars, cacheVars, stratVars, portfolio, api, ops, config, current_pit,
                   trading_dates, bar, prices, signal, trades, trade_log, error,
                   trace, applied, fills>>

\* what a run has left: its outputs and the state of the strategy object
Outcome ==
    [trade_log |-> trade_log, equity_curve |-> portfolio.equity_curve,
     error |-> error, strategy |-> strategy]

\* the caller keeps the outcome of the first run and calls run() again on
\* the same runner, with the same strategy object, config and view
GgrRerun ==
    /\ pc \in {"done", "failed"}
    /\ first_run = Nothing
    /\ first_run' = Some(Outcome)
    /\ pc' = "idle"
    /\ error' = NoError
    /\ current_pit' = PointInTimeDataFrame(<<>>, 0)
    /\ trading_dates' = <<>>
    /\ bar' = 0
    /\ prices' = EmptyDict
    /\ signal' = NoSignal
    /\ trades' = <<>>
    /\ trace' = <<>>
    /\ applied' = <<>>
    /\ fills' = <<>>
    /\ emitted' = <<>>
    /\ UNCHANGED <<pitVars, cacheVars, portfolio, api, ops, config, trade_log, strategy>>

GgrNext ==
    \/ GgrRunStart
    \/ BarUpdatePrices
    \/ GgrOnBar
    \/ BarExecute
    \/ GgrFill
    \/ BarRecordEquity
    \/ BarAdvance
    \/ GgrRunEnd
    \/ GgrRerun

GgrSpec == GgrInit /\ [][GgrNext]_vars

\* ------------------------------------------------------------------------
\* CSVCache: get_prices and clear_cache called directly, the clock advancing
\* ------------------------------------------------------------------------
MaxAge == 2

SymA == <<"A">>
SymB == <<"B">>
SymNewline == <<"A", "\n">>
SymParent == <<".", ".", "/", "A">>
SymLong == <<"A", "A", "A", "A", "A", "A", "A", "A", "A", "A", "A">>

CacheRequests ==
    {<<>>, <<SymA>>, <<<<"a">>>>, <<SymB>>, <<SymA, SymB>>, <<SymNewline>>,
     <<SymParent>>, <<SymB, SymParent>>, <<SymLong>>}

CacheRanges == {<<1, 3>>, <<1, 1>>, <<2, 3>>}

\* what the provider has of each symbol; Nothing: it raises
\* InsufficientDataError
Providers ==
    {Nothing,
     Some([s \in {SymA, SymB, SymNewline, SymParent} |->
             IF s = SymB THEN {1, 2, 3} ELSE {2, 3}])}

ClearRequests == {Nothing, Some(<<SymA>>), Some(<<SymNewline>>), Some(<<SymParent>>)}

CacheExpiries == {0, 1}

CacheInit ==
    /\ cache \in {CSVCache(e) : e \in CacheExpiries}
    /\ cache_out = NoOutcome
    /\ pit = PointInTimeDataFrame(<<>>, 0)
    /\ pit_out = NoOutcome
    /\ config = BacktestConfig(StartDate, MaxDate, InitialCapital, CapitalPerPair,
                               "adj_close", ZeroCommission)
    /\ portfolio = Portfolio(config.initial_capital)
    /\ api = NoOutcome
    /\ ops = 0
    /\ strategy = NoStrategy
    /\ pc = "idle"
    /\ current_pit = PointInTimeDataFrame(<<>>, 0)
    /\ trading_dates = <<>>
    /\ bar = 0
    /\ prices = EmptyDict
    /\ signal = NoSignal
    /\ trades = <<>>
    /\ trade_log = <<>>
    /\ error = NoError
    /\ trace = <<>>
    /\ applied = <<>>
    /\ fills = <<>>
    /\ emitted = <<>>
    /\ first_run = Nothing
    /\ heap = NoHeap

\* the adjusted arguments of the calls: both settings for the requests of A
\* alone, the default for the others
AdjustedOf(syms) == IF syms \in {<<SymA>>, <<<<"a">>>>} THEN BOOLEAN ELSE {TRUE}

CacheGetPrices ==
    /\ ops < MaxOps
    /\ \E syms \in CacheRequests, range \in CacheRanges, provider \in Providers :
         \E adjusted \in AdjustedOf(syms) :
         \E r \in {get_prices(cache, syms, range[1], range[2], adjusted, provider)} :
            /\ cache' = r.cache
            /\ cache_out' = r.out
    /\ ops' = ops + 1
    /\ UNCHANGED <<pitVars, runVars, portfolio, api>>

CacheClear ==
    /\ ops < MaxOps
    /\ \E syms \in ClearRequests :
         \E r \in {clear_cache(cache, syms)} :
            /\ cache' = r.cache
            /\ cache_out' = r.out
    /\ ops' = ops + 1
    /\ UNCHANGED <<pitVars, runVars, portfolio, api>>

\* a day passes
CacheTick ==
    /\ cache.now < MaxAge
    /\ cache' = [cache EXCEPT !.now = @ + 1]
    /\ UNCHANGED <<cache_out, ops, pitVars, runVars, portfolio, api>>

CacheNext == CacheGetPrices \/ CacheClear \/ CacheTick

CacheSpec == CacheInit /\ [][CacheNext]_vars

\* ------------------------------------------------------------------------
\* Functions called directly on inputs of a small set; the functions keep
\* no state between calls, so a behaviour is one call
\* ------------------------------------------------------------------------
\* the default fields of IBKRTieredCommission, and a model of larger rates
IbkrModels ==
    {IBKRTieredCommission(Q(35, 10000), Q(35, 100), Q(1, 100), Q(3, 10000)),
     IBKRTieredCommission(Q(1, 2), Float(2), Q(1, 10), Q(1, 4))}

IbkrShares == {Float(-100), Float(-1), Q(1, 2), Float(1), Float(3), Float(50), Float(100), Float(200)}

IbkrPrices == {Float(1), Float(10), Float(150)}

CalcInit ==
    /\ pit = PointInTimeDataFrame(<<>>, 0)
    /\ pit_out = NoOutcome
    /\ config = BacktestConfig(StartDate, MaxDate, InitialCapital, CapitalPerPair,
                               "adj_close", ZeroCommission)
    /\ portfolio = Portfolio(config.initial_capital)
    /\ api = NoOutcome
    /\ ops = 0
    /\ strategy = NoStrategy
    /\ RunDefaults

\* IBKRTieredCommission(...).calculate(shares, price)
CalcCommission ==
    /\ ops = 0
    /\ \E model \in IbkrModels, shares \in IbkrShares, price \in IbkrPrices :
         api' = [op |-> "calculate", model |-> model, shares |-> shares, price |-> price,
                 result |-> calculate(model, shares, price)]
    /\ ops' = ops + 1
    /\ UNCHANGED <<pitVars, cacheVars, runVars, portfolio>>

\* the portfolios handed to execute_weight_signal
WeightPortfolios == {Portfolio(Float(20)), Portfolio(Float(1000))}

WeightSignals ==
    { WeightSignal(<<<<"A", Q(1, 2)>>, <<"B", Q(-1, 2)>>>>),
      WeightSignal(<<<<"B", Float(1)>>>>),
      WeightSignal(<<<<"A", Q(1, 2)>>, <<"B", Float(1)>>>>),
      WeightSignal(<<<<"A", Q(1, 4000)>>, <<"B", Q(-1, 4)>>>>),
      WeightSignal(<<<<"A", Q(1, 4000)>>>>) }

WeightPrices ==
    { [s \in {"A", "B"} |-> Float(1)],
      [s \in {"A", "B"} |-> IF s = "A" THEN Float(2) ELSE Float(5)],
      [s \in {"A"} |-> Float(4)] }

\* ClosePriceExecution(commission_model).execute_weight_signal(signal,
\* current_date, prices, portfolio)
CalcExecuteWeight ==
    /\ ops = 0
    /\ \E pf \in WeightPortfolios, sig \in WeightSignals, px \in WeightPrices, cm \in {ZeroCommission, PerShareCommission} :
         \E r \in {execute_weight_signal(cm, sig, StartDate, px, pf)} :
            api' = [op |-> "execute_weight_signal", before |-> pf, signal |-> sig,
                    prices |-> px, raised |-> r.raised, trades |-> r.trades,
                    after |-> r.pf]
    /\ ops' = ops + 1
    /\ UNCHANGED <<pitVars, cacheVars, runVars, portfolio>>

\* the equity curves handed to _calculate_drawdown: up to MaxCurve points
MaxCurve == 4

EquityValues == {Float(1), Float(2), Float(3)}

EquityCurves == UNION {[1..n -> EquityValues] : n \in 0..MaxCurve}

\* the dates of the curve: consecutive days, or days with gaps
CurveDates == {[i \in 1..MaxCurve + 1 |-> i], [i \in 1..MaxCurve + 1 |-> i * i]}

\* _calculate_drawdown(equity_values, dates)
CalcDrawdown ==
    /\ ops = 0
    /\ \E equity_values \in EquityCurves, all_dates \in CurveDates :
         \E r \in {calculate_drawdown(equity_values, SubSeq(all_dates, 1, Len(equity_values)))} :
            api' = [op |-> "calculate_drawdown", equity_values |-> equity_values,
                    dates |-> SubSeq(all_dates, 1, Len(equity_values)),
                    max_drawdown |-> r.max_drawdown,
                    max_dd_duration |-> r.max_dd_duration]
    /\ ops' = ops + 1
    /\ UNCHANGED <<pitVars, cacheVars, runVars, portfolio>>

\* the portfolios handed to update_prices: a new one, one holding a pair,
\* one holding a position, one holding both
PricedPortfolios ==
    ApiSeeds \cup
    { execute_trade(open_pair(Portfolio(ApiCapital), "A_B",
                              Trade(1, "A", LONG, Float(2), Float(1), Zero, "A_B"),
                              Trade(1, "B", SHORT, Float(1), Float(3), Zero, "A_B"),
                              Float(1), 1).pf,
                    Trade(1, "B", LONG, Float(1), Float(3), Zero, None)).pf }

\* portfolio.update_prices(prices)
CalcUpdatePrices ==
    /\ ops = 0
    /\ \E pf \in PricedPortfolios, S \in SUBSET Symbols :
         \E px \in [S -> {Float(2), Float(5)}] :
            api' = [op |-> "update_prices", before |-> pf, prices |-> px,
                    after |-> update_prices(pf, px)]
    /\ ops' = ops + 1
    /\ UNCHANGED <<pitVars, cacheVars, runVars, portfolio>>

\* the positions add_shares is called on: flat, long, short, and a long one
\* that has realised a profit before
HeldPositions ==
    { Position("A", Zero, Zero, Zero),
      Position("A", Float(2), Float(2), Float(2)),
      Position("A", Float(-2), Float(4), Float(4)),
      [Position("A", Q(3, 2), Float(3), Float(2)) EXCEPT !.realized_pnl = Float(1)] }

\* position.add_shares(shares, price)
CalcAddShares ==
    /\ ops = 0
    /\ \E pos \in HeldPositions, n \in {-3, -2, -1, 1, 2, 3}, price \in {Float(1), Float(2), Float(5)} :
         \E r \in {add_shares(pos, Float(n), price)} :
            api' = [op |-> "add_shares", before |-> pos, shares |-> Float(n),
                    price |-> price, after |-> r.pos, realized |-> r.realized]
    /\ ops' = ops + 1
    /\ UNCHANGED <<pitVars, cacheVars, runVars, portfolio>>

\* portfolio.constraints: DollarNeutralConstraint on a WeightSignal
DollarNeutralConstraint(tolerance, auto_adjust) ==
    [tolerance |-> tolerance, auto_adjust |-> auto_adjust]

\* WeightSignal.net_exposure: sum(self.weights.values())
net_exposure(sig) ==
    RSum([i \in 1..Len(sig.weights) |-> sig.weights[i][2]],
         1..Len(sig.weights))

\* DollarNeutralConstraint.validate(signal, portfolio) on a WeightSignal
dollar_neutral_validate(c, sig) ==
    RLe(RAbs(net_exposure(sig)), c.tolerance)

\* the items of longs followed by those of shorts, each scaled
scale_weights(weights, long_scale, short_scale) ==
    [i \in 1..Len(SelectSeq(weights, LAMBDA it : RGt(it[2], Zero))) |->
        <<SelectSeq(weights, LAMBDA it : RGt(it[2], Zero))[i][1],
          RMul(SelectSeq(weights, LAMBDA it : RGt(it[2], Zero))[i][2], long_scale)>>]
    \o [i \in 1..Len(SelectSeq(weights, LAMBDA it : RLt(it[2], Zero))) |->
        <<SelectSeq(weights, LAMBDA it : RLt(it[2], Zero))[i][1],
          RMul(SelectSeq(weights, LAMBDA it : RLt(it[2], Zero))[i][2], short_scale)>>]

\* sum(longs.values()) and abs(sum(shorts.values()))
long_sum(weights) ==
    RSum([i \in 1..Len(weights) |-> weights[i][2]],
         {i \in 1..Len(weights) : RGt(weights[i][2], Zero)})

short_sum(weights) ==
    RAbs(RSum([i \in 1..Len(weights) |-> weights[i][2]],
              {i \in 1..Len(weights) : RLt(weights[i][2], Zero)}))

\* DollarNeutralConstraint._normalize_weights(weights)
normalize_weights(c, weights) ==
    IF weights = <<>> THEN weights
    ELSE IF RLe(RAbs(net_exposure([weights |-> weights])), c.tolerance) THEN weights
    ELSE IF long_sum(weights) = Zero \/ short_sum(weights) = Zero THEN weights
    ELSE scale_weights(
             weights,
             RDiv(RDiv(RAdd(long_sum(weights), short_sum(weights)), Float(2)),
                  long_sum(weights)),
             RDiv(RDiv(RAdd(long_sum(weights), short_sum(weights)), Float(2)),
                  short_sum(weights)))

\* DollarNeutralConstraint.adjust(signal, portfolio) on a WeightSignal: the
\* signal returned, or ConstraintViolationError raised
dollar_neutral_adjust(c, sig) ==
    IF dollar_neutral_validate(c, sig)
    THEN [raised |-> None, signal |-> sig]
    ELSE IF ~c.auto_adjust
    THEN [raised |-> "ConstraintViolationError", signal |-> NoSignal]
    ELSE [raised |-> None,
          signal |-> WeightSignal(normalize_weights(c, sig.weights))]

NeutralConstraints ==
    {DollarNeutralConstraint(t, a) : t \in {Q(1, 100), Zero}, a \in BOOLEAN}

AdjustedSignals ==
    { WeightSignal(<<<<"A", Q(1, 2)>>, <<"B", Q(-1, 2)>>>>),
      WeightSignal(<<<<"A", Q(1, 2)>>, <<"B", Q(-1, 4)>>>>),
      WeightSignal(<<<<"A", Q(1, 2)>>, <<"B", Q(-99, 200)>>>>),
      WeightSignal(<<<<"A", Q(1, 2)>>, <<"B", Q(1, 2)>>>>),
      WeightSignal(<<<<"A", Float(1)>>>>),
      WeightSignal(<<<<"B", Q(-1, 2)>>>>),
      WeightSignal(<<<<"A", Q(1, 2)>>, <<"B", Zero>>, <<"C", Q(-1, 4)>>>>),
      WeightSignal(<<<<"C", Q(-1, 4)>>, <<"A", Q(1, 4)>>, <<"B", Q(1, 2)>>>>) }

CalcAdjust ==
    /\ ops = 0
    /\ \E c \in NeutralConstraints, sig \in AdjustedSignals :
         \E r \in {dollar_neutral_adjust(c, sig)} :
            api' = [op |-> "adjust", constraint |-> c, signal |-> sig,
                    raised |-> r.raised, returned |-> r.signal]
    /\ ops' = ops + 1
    /\ UNCHANGED <<pitVars, cacheVars, runVars, portfolio>>

\* the two trades that open pair A_B on a date, the two that close it and
\* the one that closes its long leg only
OpenTrades(date) ==
    <<Trade(date, "A", LONG, Float(2), Float(10), Float(1), "A_B"),
      Trade(date, "B", SHORT, Float(1), Float(20), Float(1), "A_B")>>

CloseTrades(date) ==
    <<Trade(date, "A", SHORT, Float(2), Float(11), Float(1), "A_B"),
      Trade(date, "B", LONG, Float(1), Float(20), Float(1), "A_B")>>

HalfCloseTrades(date) ==
    <<Trade(date, "A", SHORT, Float(2), Float(11), Float(1), "A_B")>>

\* the trade logs replayed: the pair opened; closed; closed on one leg;
\* opened again; closed again; a second pair C_D opened beside it
TradeLogs ==
    {OpenTrades(1),
     OpenTrades(1) \o CloseTrades(2),
     OpenTrades(1) \o HalfCloseTrades(2),
     OpenTrades(1) \o CloseTrades(2) \o OpenTrades(3),
     OpenTrades(1) \o CloseTrades(2) \o OpenTrades(3) \o CloseTrades(4),
     OpenTrades(1) \o CloseTrades(2) \o OpenTrades(3) \o HalfCloseTrades(4),
     OpenTrades(1) \o CloseTrades(2)
         \o <<Trade(3, "C", LONG, Float(1), Float(5), Zero, "C_D"),
              Trade(3, "D", SHORT, Float(1), Float(5), Zero, "C_D")>>}

FinalPrices ==
    {EmptyDict,
     DictPut(DictPut(EmptyDict, "A", Float(12)), "B", Float(19)),
     DictPut(EmptyDict, "A", Float(12)),
     DictPut(DictPut(EmptyDict, "C", Float(6)), "D", Float(4))}

\* match_round_trips(trade_log, final_prices, include_open, end_date)
CalcMatchRoundTrips ==
    /\ ops = 0
    /\ \E log \in TradeLogs, final_prices \in FinalPrices, include_open \in BOOLEAN :
         \E r \in {match_round_trips(log, final_prices, include_open, Some(5))} :
            api' = [op |-> "match_round_trips", log |-> log,
                    final_prices |-> final_prices,
                    include_open |-> include_open, round_trips |-> r]
    /\ ops' = ops + 1
    /\ UNCHANGED <<pitVars, cacheVars, runVars, portfolio>>

\* analyze_drawdowns(equity_curve)
CalcAnalyzeDrawdowns ==
    /\ ops = 0
    /\ \E equity_values \in EquityCurves, all_dates \in CurveDates :
         \E r \in {analyze_drawdowns(equity_values, SubSeq(all_dates, 1, Len(equity_values)))} :
            api' = [op |-> "analyze_drawdowns", equity_values |-> equity_values,
                    dates |-> SubSeq(all_dates, 1, Len(equity_values)),
                    periods |-> r]
    /\ ops' = ops + 1
    /\ UNCHANGED <<pitVars, cacheVars, runVars, portfolio>>

CalcNext ==
    \/ CalcCommission
    \/ CalcExecuteWeight
    \/ CalcDrawdown
    \/ CalcUpdatePrices
    \/ CalcAddShares
    \/ CalcMatchRoundTrips
    \/ CalcAdjust
    \/ CalcAnalyzeDrawdowns

CalcSpec == CalcInit /\ [][CalcNext]_vars

\* ------------------------------------------------------------------------
\* Properties
\* ------------------------------------------------------------------------
ReadOps == {"get_data", "for_symbol", "get_latest", "slice"}

\* C1: get_data(), for_symbol(s), get_latest(s) and slice(start, end) on a view
\* with reference date r return only rows dated <= r, whatever later rows the
\* table holds.
C1_OnlyPastRows ==
    pit_out.op \in ReadOps =>
        \A r \in SeqRange(pit_out.rows) : r.date <= pit_out.pit.reference_date

\* C1 witness: a read returned rows from a table that also holds later rows
C1_Witness ==
    /\ pit_out.op = "for_symbol"
    /\ pit_out.rows # <<>>
    /\ \E r \in SeqRange(pit_out.pit.df) : r.date > pit_out.pit.reference_date

\* the run was given a view whose reference date is <= start_date
ValidRun == pit.reference_date <= config.start_date

\* C2: in a run started from a view with reference date <= start_date, the
\* view handed to on_bar(d, pit) shows no row dated after d.
C2_OnBarSeesNoFuture ==
    (ValidRun /\ pc = "on_bar") =>
        \A r \in SeqRange(get_data(current_pit)) : r.date <= current_date

\* C2 witness: on_bar of a later bar is about to be called with a view that
\* shows rows, while the table holds rows dated after the bar
C2_Witness ==
    /\ ValidRun
    /\ pc = "on_bar"
    /\ bar >= 2
    /\ get_data(current_pit) # <<>>
    /\ \E r \in SeqRange(pit.df) : r.date > current_date

\* the prices of the current bar have been read
PricesRead == pc \in {"on_bar", "execute", "fill", "record_equity"}

\* C3: on trading date d, for every symbol with a row dated d, the price used
\* to mark the portfolio and to fill trades is the configured price column of
\* the row dated d.
C3_PricesOfTheDay ==
    (ValidRun /\ PricesRead) =>
        \A r \in SeqRange(pit.df) :
            r.date = current_date =>
                /\ r.symbol \in DOMAIN prices
                /\ prices[r.symbol] = Float(Column(r, config.price_column))

Rank(ev) ==
    IF ev = "update_prices" THEN 1
    ELSE IF ev = "on_bar" THEN 2
    ELSE IF ev = "execute" THEN 3
    ELSE 4

\* C4: within a trading date the runner performs update_prices, on_bar, the
\* execution of the returned signal and record_equity in this order, and no
\* step of the next date starts before record_equity of the date.
C4_StepOrder ==
    /\ trace # <<>> => trace[1].ev = "update_prices"
    /\ \A i \in 1..(Len(trace) - 1) :
         LET a == trace[i]
             b == trace[i + 1]
         IN  IF a.date = b.date
             THEN /\ Rank(a.ev) < Rank(b.ev)
                  /\ b.ev = "on_bar" => a.ev = "update_prices"
                  /\ b.ev = "execute" => (a.ev = "on_bar" /\ a.sig \notin {"none", "raised"})
                  /\ b.ev = "record_equity" =>
                        \/ a.ev = "execute"
                        \/ a.ev = "on_bar" /\ a.sig = "none"
             ELSE /\ a.ev = "record_equity"
                  /\ b.ev = "update_prices"
                  /\ a.date < b.date

\* C4 witness: a bar with an executed signal was completed and the next bar
\* has started
C4_Witness ==
    \E i \in 1..(Len(trace) - 2) :
        /\ trace[i].ev = "execute"
        /\ trace[i + 1].ev = "record_equity"
        /\ trace[i + 2].ev = "update_prices"

\* the distinct dates of the table within [start_date, end_date]
DatesInRange ==
    {r.date : r \in {x \in SeqRange(pit.df) :
                        config.start_date <= x.date /\ x.date <= config.end_date}}

\* C5: the dates of the equity curve are strictly increasing in every run, and
\* on normal completion the curve holds exactly one entry for each distinct
\* date of the data within [start_date, end_date].
C5_EquityCurveDates ==
    LET curve == portfolio.equity_curve
    IN  /\ \A i, j \in 1..Len(curve) : i < j => curve[i][1] < curve[j][1]
        /\ pc = "done" =>
              /\ {curve[i][1] : i \in 1..Len(curve)} = DatesInRange
              /\ Len(curve) = Cardinality(DatesInRange)

\* C5 witness: a run completed over several dates of a table with more than
\* one row per date
C5_Witness ==
    /\ pc = "done"
    /\ Len(portfolio.equity_curve) >= 2
    /\ \E i, j \in 1..Len(pit.df) :
          i # j /\ pit.df[i].date = pit.df[j].date
                /\ pit.df[i].date \in DatesInRange

InsufficientCapital == "InsufficientCapitalError"

\* C7: execute_trade raises InsufficientCapital iff the trade is LONG and
\* shares*price + commission > cash; when it raises, cash, positions, realized
\* P&L and the commission total are unchanged.
C7_ExecuteTradeRaises ==
    [][api'.op = "execute_trade" =>
          LET t == api'.trade
              too_costly == /\ t.side = LONG
                            /\ RGt(RAdd(RMul(t.shares, t.price), t.commission),
                                   portfolio.cash)
          IN  /\ api'.raised = InsufficientCapital <=> too_costly
              /\ api'.raised \in {None, InsufficientCapital}
              /\ api'.raised = InsufficientCapital =>
                    /\ portfolio'.cash = portfolio.cash
                    /\ portfolio'.positions = portfolio.positions
                    /\ realized_pnl(portfolio') = realized_pnl(portfolio)
                    /\ portfolio'.cumulative_commission =
                           portfolio.cumulative_commission]_vars

\* C7 witness: execute_trade has raised InsufficientCapital
C7_Witness ==
    /\ api.op = "execute_trade"
    /\ api.raised = InsufficientCapital
    /\ api.trade.side = LONG

\* C8: open_pair with long shares*price + commission > cash raises
\* InsufficientCapital and leaves the portfolio as it was: no leg position, no
\* pair record, no change to cash or to the commission total.
C8_OpenPairAtomic ==
    [][(api'.op = "open_pair"
        /\ RGt(RAdd(RMul(api'.long_trade.shares, api'.long_trade.price),
                    api'.long_trade.commission),
               portfolio.cash)) =>
          /\ api'.raised = InsufficientCapital
          /\ portfolio' = portfolio]_vars

\* C8 witness: open_pair has raised InsufficientCapital for a pair that is not
\* in the portfolio
C8_Witness ==
    /\ api.op = "open_pair"
    /\ api.raised = InsufficientCapital
    /\ api.pair_id \notin DOMAIN portfolio.pair_positions

\* C9: after every successful execute_trade, open_pair or close_pair the
\* positions hold no Position with shares = 0 and the pair positions hold no
\* pair with both legs flat.
C9_NoFlatRetained ==
    /\ \A sym \in DOMAIN portfolio.positions :
          portfolio.positions[sym].shares # Zero
    /\ \A i \in DOMAIN portfolio.pair_positions :
          ~is_closed(portfolio.pair_positions[i])

\* C9 witness: a trade has brought a held position back to flat
C9_Witness ==
    /\ api.op = "execute_trade"
    /\ api.raised = None
    /\ api.trade.side = SHORT
    /\ api.trade.symbol \notin DOMAIN portfolio.positions

\* C10: every stored PairPosition has long-leg shares > 0 and short-leg shares
\* < 0 in every state reachable through open_pair, update_prices, close_pair.
C10_PairLegSigns ==
    \A i \in DOMAIN portfolio.pair_positions :
        /\ RGt(portfolio.pair_positions[i].long_position.shares, Zero)
        /\ RLt(portfolio.pair_positions[i].short_position.shares, Zero)

\* C10 witness: a pair is held after its prices were updated
C10_Witness ==
    /\ api.op = "update_prices"
    /\ \E i \in DOMAIN portfolio.pair_positions :
          portfolio.pair_positions[i].long_position.current_price #
              portfolio.pair_positions[i].long_position.avg_entry_price

\* the signal about to be executed closes a pair
ClosingSignal ==
    /\ pc = "execute"
    /\ signal.kind = "pair"
    /\ signal.signal_type = CLOSE_PAIR

\* C11: executing a CLOSE pair signal whose pair_id is not an open pair raises
\* ExecutionError and changes nothing in the portfolio (cash, positions, pair
\* positions, commission total).
C11_CloseUnknownPair ==
    [][(ClosingSignal
        /\ get_pair_id(signal) \notin DOMAIN portfolio.pair_positions) =>
          /\ pc' = "failed"
          /\ error'.cause = "ExecutionError"
          /\ portfolio' = portfolio
          /\ trade_log' = trade_log]_vars

\* C11 witness: a CLOSE for a pair that is not open has failed while prices
\* of both symbols were known and another pair was open
C11_Witness ==
    /\ pc = "failed"
    /\ error.cause = "ExecutionError"
    /\ signal.kind = "pair"
    /\ signal.signal_type = CLOSE_PAIR
    /\ {signal.long_symbol, signal.short_symbol} \subseteq DOMAIN prices
    /\ get_pair_id(signal) \notin DOMAIN portfolio.pair_positions
    /\ DOMAIN portfolio.pair_positions # {}

\* C12: executing a CLOSE pair signal for an open pair emits exactly two
\* trades, a SHORT-side trade for the long leg's full share count and a
\* LONG-side trade for the short leg's full absolute share count, and
\* afterwards the pair_id is no longer in pair_positions.
C12_CloseEmitsTwoTrades ==
    [][(ClosingSignal
        /\ get_pair_id(signal) \in DOMAIN portfolio.pair_positions) =>
          LET pair_id == get_pair_id(signal)
              pp == portfolio.pair_positions[pair_id]
          IN  /\ pc' = "fill"
              /\ Len(trades') = 2
              /\ trades'[1].side = SHORT
              /\ trades'[1].shares = pp.long_position.shares
              /\ trades'[2].side = LONG
              /\ trades'[2].shares = RAbs(pp.short_position.shares)
              /\ \A i \in 1..2 : trades'[i].pair_id = pair_id
              /\ pair_id \notin DOMAIN portfolio'.pair_positions]_vars

\* C12 witness: the two trades of a CLOSE are about to be logged and the pair
\* is gone
C12_Witness ==
    /\ pc = "fill"
    /\ signal.kind = "pair"
    /\ signal.signal_type = CLOSE_PAIR
    /\ Len(trades) = 2
    /\ trades[1].side = SHORT
    /\ get_pair_id(signal) \notin DOMAIN portfolio.pair_positions

\* C13: executing an OPEN pair signal with hedge ratio h at prices pL and pS
\* creates a long leg of capital_per_pair / ((1 + h) * pL) shares and a short
\* leg of h * capital_per_pair / ((1 + h) * pS) shares, so that the two entry
\* notionals sum to capital_per_pair and their ratio is h.
C13_OpenPairSizing ==
    [][(pc = "execute" /\ signal.kind = "pair"
        /\ signal.signal_type = OPEN_PAIR /\ pc' # "failed") =>
          LET h == signal.hedge_ratio
              cap == config.capital_per_pair
              pL == prices[signal.long_symbol]
              pS == prices[signal.short_symbol]
              pp == portfolio'.pair_positions[get_pair_id(signal)]
              long_shares == pp.long_position.shares
              short_shares == RAbs(pp.short_position.shares)
              long_entry == RMul(long_shares, pp.long_position.avg_entry_price)
              short_entry == RMul(short_shares,
                                  pp.short_position.avg_entry_price)
          IN  /\ get_pair_id(signal) \in DOMAIN portfolio'.pair_positions
              /\ long_shares = RDiv(cap, RMul(RAdd(Float(1), h), pL))
              /\ short_shares = RDiv(RMul(h, cap), RMul(RAdd(Float(1), h), pS))
              /\ RAdd(long_entry, short_entry) = cap
              /\ short_entry = RMul(h, long_entry)]_vars

\* C13 witness: a pair was opened with a hedge ratio other than 1 at two
\* different prices
C13_Witness ==
    /\ pc = "fill"
    /\ signal.kind = "pair"
    /\ signal.signal_type = OPEN_PAIR
    /\ signal.hedge_ratio # Float(1)
    /\ get_pair_id(signal) \in DOMAIN portfolio.pair_positions
    /\ prices[signal.long_symbol] # prices[signal.short_symbol]

\* on_bar has returned None on every bar so far
OnlyNone == \A i \in 1..Len(trace) : trace[i].ev = "on_bar" => trace[i].sig = "none"

\* C14: if on_bar returns None on every bar, the run ends with an empty trade
\* log and, at every recorded bar, cash and equity both equal initial_capital.
C14_DoNothingStrategy ==
    OnlyNone =>
        /\ trade_log = <<>>
        /\ portfolio.cash = config.initial_capital
        /\ \A i \in 1..Len(portfolio.equity_curve) :
              portfolio.equity_curve[i][2] = config.initial_capital

\* C14 witness: a run over several bars with changing prices has completed
\* without a signal
C14_Witness ==
    /\ pc = "done"
    /\ OnlyNone
    /\ Len(portfolio.equity_curve) >= 2
    /\ \E r1, r2 \in SeqRange(pit.df) : r1.symbol = r2.symbol /\ r1.close # r2.close

StrategyCallbacks == {"on_start", "on_bar", "on_fill", "on_end"}

\* C16: any exception raised by a strategy callback during a run (on_start,
\* on_bar, on_fill or on_end) reaches the caller of run() as a StrategyError.
C16_CallbackErrorsWrapped ==
    (pc = "failed" /\ error.cause \in StrategyCallbacks) =>
        error.type = "StrategyError"

\* C17: advance_to(n) on a view with reference date r raises the look-ahead
\* error when n < r and otherwise returns a view whose reference date is n;
\* advance_to(r) returns a view with exactly the same visible rows.
C17_AdvanceTo ==
    pit_out.op = "advance_to" =>
        LET p == pit_out.pit
            n == pit_out.new_date
        IN  /\ pit_out.raised = "LookAheadBiasError" <=> n < p.reference_date
            /\ pit_out.raised \in {None, "LookAheadBiasError"}
            /\ pit_out.raised = None => pit.reference_date = n
            /\ n = p.reference_date =>
                  /\ pit_out.raised = None
                  /\ get_data(pit) = get_data(p)

\* C17 witness: advance_to(r) was called on a view that shows rows and hides
\* others
C17_Witness ==
    /\ pit_out.op = "advance_to"
    /\ pit_out.new_date = pit_out.pit.reference_date
    /\ get_data(pit) # <<>>
    /\ get_data(pit) # pit.df

\* C18: advance_to never changes the view it is called on: after
\* p2 = p.advance_to(n), p still has its old reference date and returns the
\* rows it returned before, whatever is done with p2 afterwards.
C18_AdvanceToLeavesReceiver ==
    \A h \in 1..Len(heap.objects) :
        /\ heap.objects[h].reference_date = heap.born[h].reference_date
        /\ get_data(Deref(heap, h)) = heap.born[h].rows

\* C18 witness: a view was advanced to a date that shows more rows, the new
\* view was read and the returned DataFrame was written
C18_Witness ==
    /\ Len(heap.objects) >= 2
    /\ heap.last = "write"
    /\ \E h \in 2..Len(heap.objects) :
          /\ heap.born[h].reference_date > heap.born[1].reference_date
          /\ heap.born[h].rows # heap.born[1].rows

\* the second run on the runner has stopped
SecondRunOver == first_run # Nothing /\ pc \in {"done", "failed"}

\* the second run has produced the trade log and the equity curve of the first
SameOutputs ==
    SecondRunOver =>
        /\ trade_log = first_run[1].trade_log
        /\ portfolio.equity_curve = first_run[1].equity_curve
        /\ error = first_run[1].error

\* C15: running the same BacktestRunner twice with the same strategy object,
\* config and initial view produces identical trade logs and identical equity
\* curves, and nothing from the first run (portfolio, trade log or strategy
\* state) carries over into the second: the strategy object is after the
\* second run as it was after the first.
C15_RerunIdentical ==
    /\ SameOutputs
    /\ SecondRunOver => strategy = first_run[1].strategy

\* on_bar of bar b has returned
OnBarDone(b) ==
    /\ b <= Len(trading_dates)
    /\ \E k \in 1..Len(trace) :
          trace[k].ev = "on_bar" /\ trace[k].date = trading_dates[b]

IsOpen(e) == e.signal.signal_type = OPEN_PAIR
IsClose(e) == e.signal.signal_type = CLOSE_PAIR

\* C19: under the runner, for every OPEN the distance strategy emits for a
\* pair at bar i it emits a CLOSE for the same pair at some bar j with
\* i < j <= i + max_holding_days, whenever the run has that many later bars,
\* also when several pairs are open at once.
C19_CloseWithinHolding ==
    \A k \in 1..Len(emitted) :
        (IsOpen(emitted[k])
         /\ OnBarDone(emitted[k].bar + strategy.max_holding_days)) =>
            \E l \in 1..Len(emitted) :
                /\ IsClose(emitted[l])
                /\ emitted[l].signal.pair_id = emitted[k].signal.pair_id
                /\ emitted[k].bar < emitted[l].bar
                /\ emitted[l].bar <= emitted[k].bar + strategy.max_holding_days

\* C19 witness: two pairs were open at once and the second was closed by the
\* time stop after more than one bar
C19_Witness ==
    \E k1, k2, l1, l2 \in 1..Len(emitted) :
        /\ k1 < k2 /\ k2 < l1 /\ l1 < l2
        /\ IsOpen(emitted[k1]) /\ IsOpen(emitted[k2])
        /\ IsClose(emitted[l1]) /\ IsClose(emitted[l2])
        /\ emitted[l1].signal.pair_id = emitted[k1].signal.pair_id
        /\ emitted[l2].signal.pair_id = emitted[k2].signal.pair_id
        /\ emitted[k1].signal.pair_id # emitted[k2].signal.pair_id
        /\ emitted[l2].bar = emitted[k2].bar + strategy.max_holding_days
        /\ strategy.max_holding_days > 1

\* C20: on every bar the distance strategy returns at most one signal, and it
\* returns an OPEN on a bar only if no active pair meets any exit condition
\* on that bar (exits are checked before entries).
C20_ExitsBeforeEntries ==
    [][pc = "on_bar" =>
          /\ \A k, l \in 1..Len(emitted') : k < l => emitted'[k].bar < emitted'[l].bar
          /\ (signal'.kind = "pair" /\ signal'.signal_type = OPEN_PAIR) =>
                \A i \in 1..Len(strategy.active_positions) :
                    ~exit_due(strategy, get_data(current_pit),
                              [strategy.active_positions[i] EXCEPT
                                  !.days_held = @ + 1])]_vars

\* C20 witness: an OPEN was returned on a bar on which another pair was active
C20_Witness ==
    /\ pc = "execute"
    /\ signal.kind = "pair"
    /\ signal.signal_type = OPEN_PAIR
    /\ Len(strategy.active_positions) >= 2

\* the trade log holds one OPEN of a pair followed by its CLOSE
OpenedAndClosedOnce ==
    /\ Len(trade_log) = 4
    /\ trade_log[1].pair_id # None
    /\ \A i \in 2..4 : trade_log[i].pair_id = trade_log[1].pair_id
    /\ trade_log[1].side = LONG /\ trade_log[2].side = SHORT
    /\ trade_log[3].side = SHORT /\ trade_log[4].side = LONG
    /\ trade_log[3].symbol = trade_log[1].symbol
    /\ trade_log[4].symbol = trade_log[2].symbol
    /\ trade_log[3].shares = trade_log[1].shares
    /\ trade_log[4].shares = trade_log[2].shares

\* long_shares*(long_exit - long_entry) + short_shares*(short_entry - short_exit)
\* - total commission, for a log of one OPEN and its CLOSE
ExpectedPnl(log) ==
    RSub(RAdd(RMul(log[1].shares, RSub(log[3].price, log[1].price)),
              RMul(log[2].shares, RSub(log[2].price, log[4].price))),
         RSum([i \in 1..4 |-> log[i].commission], 1..4))

\* scenario S3: 50 and 50 shares, long leg 100 to 110, short leg 100 to 100
S3Log ==
    <<Trade(1, "A", LONG, Float(50), Float(100), Zero, "A_B"),
      Trade(1, "B", SHORT, Float(50), Float(100), Zero, "A_B"),
      Trade(2, "A", SHORT, Float(50), Float(110), Zero, "A_B"),
      Trade(2, "B", LONG, Float(50), Float(100), Zero, "A_B")>>

\* C21: for a pair opened once and closed once match_round_trips yields
\* exactly one RoundTrip, whose pnl is long_shares*(long_exit - long_entry)
\* + short_shares*(short_entry - short_exit) - total commission of its
\* trades and whose return_pct is pnl / entry notional; S3 gives pnl 500 and
\* return 0.05.
C21_RoundTripPnl ==
    /\ OpenedAndClosedOnce =>
          LET rts == match_round_trips(trade_log, EmptyDict, TRUE, Nothing)
          IN  /\ Len(rts) = 1
              /\ rts[1].pnl = ExpectedPnl(trade_log)
              /\ rts[1].return_pct =
                    RDiv(ExpectedPnl(trade_log),
                         RAdd(notional(trade_log[1]), notional(trade_log[2])))
    /\ LET s3 == match_round_trips(S3Log, EmptyDict, TRUE, Nothing)
       IN  /\ Len(s3) = 1
           /\ s3[1].pnl = Float(500)
           /\ s3[1].return_pct = Q(1, 20)

\* C21 witness: a run opened and closed a pair at different prices of the
\* long leg and paid commission on the exit
C21_Witness ==
    /\ pc = "done"
    /\ OpenedAndClosedOnce
    /\ trade_log[3].price # trade_log[1].price
    /\ trade_log[3].commission # Zero

\* a completed run in which every opened pair has been closed
AllPairsClosed ==
    /\ pc = "done"
    /\ trade_log # <<>>
    /\ DOMAIN portfolio.pair_positions = {}
    /\ DOMAIN portfolio.positions = {}

\* the sum of pnl over the round trips of the trade log
RoundTripPnl ==
    LET rts == match_round_trips(trade_log, EmptyDict, TRUE, Nothing)
    IN  RSum([i \in 1..Len(rts) |-> rts[i].pnl], 1..Len(rts))

\* some pair was opened more than once
Reopened ==
    \E k, l \in 1..Len(emitted) :
        /\ k < l
        /\ emitted[k].signal.signal_type = OPEN_PAIR
        /\ emitted[l].signal.signal_type = OPEN_PAIR
        /\ emitted[k].signal.pair_id = emitted[l].signal.pair_id

\* C22: for a completed run in which every opened pair has been closed,
\* pairs opened and closed more than once included, the sum of pnl over the
\* round trips returned by match_round_trips equals final equity minus
\* initial capital.
C22_RoundTripsReconcile ==
    AllPairsClosed =>
        RoundTripPnl = RSub(equity(portfolio), portfolio.initial_capital)

\* the same for the runs in which no pair was opened twice
ReconcileWithoutReopen ==
    (AllPairsClosed /\ ~Reopened) =>
        RoundTripPnl = RSub(equity(portfolio), portfolio.initial_capital)

ReopenedRun == AllPairsClosed /\ Reopened

\* a step of get_prices whose symbols all name cache files
GetPricesStep ==
    /\ ops' = ops + 1
    /\ cache_out'.op = "get_prices"
    /\ cache_out'.symbols # <<>>
    /\ \A i \in DOMAIN cache_out'.symbols : fullmatch(upper(cache_out'.symbols[i]))

Requested == {upper(cache_out'.symbols[i]) : i \in DOMAIN cache_out'.symbols}

\* the symbol was returned from its file and the provider was not asked for it
ServedFromDisk(u) ==
    /\ \E i \in DOMAIN cache_out'.served : cache_out'.served[i] = u
    /\ \/ cache_out'.fetched = Nothing
       \/ \A i \in DOMAIN cache_out'.fetched[1] : cache_out'.fetched[1][i] # u

AskedOfProvider(u) ==
    /\ cache_out'.fetched # Nothing
    /\ \E i \in DOMAIN cache_out'.fetched[1] : cache_out'.fetched[1][i] = u

\* the record of u covers the request and is younger than the expiry
RecordCoversAndFresh(u) ==
    /\ u \in DOMAIN cache.metadata
    /\ cache.metadata[u].start_date <= cache_out'.start
    /\ cache.metadata[u].end_date >= cache_out'.end
    /\ \/ cache.expiry_days = 0
       \/ cache.now - cache.metadata[u].download_date < cache.expiry_days

\* the file of u holds a row of the requested range
FileHasRows(u) ==
    /\ Append(u, ".csv") \in DOMAIN cache.files
    /\ \E d \in cache.files[Append(u, ".csv")] : cache_out'.start <= d /\ d <= cache_out'.end

\* the rows get_prices returned of u
ReturnedRows(u) == {r[2] : r \in {x \in cache_out'.rows : x[1] = u}}

\* file and record of u were replaced by the download of the requested range
Replaced(u) ==
    /\ Append(u, ".csv") \in DOMAIN cache'.files
    /\ cache'.files[Append(u, ".csv")] = ReturnedRows(u)
    /\ u \in DOMAIN cache'.metadata
    /\ cache'.metadata[u] =
          SymbolCacheInfo(u, cache_out'.start, cache_out'.end, cache.now,
                          Cardinality(ReturnedRows(u)))

\* file and record of u are what they were
Kept(u) ==
    /\ (Append(u, ".csv") \in DOMAIN cache'.files) = (Append(u, ".csv") \in DOMAIN cache.files)
    /\ Append(u, ".csv") \in DOMAIN cache.files =>
          cache'.files[Append(u, ".csv")] = cache.files[Append(u, ".csv")]
    /\ (u \in DOMAIN cache'.metadata) = (u \in DOMAIN cache.metadata)
    /\ u \in DOMAIN cache.metadata => cache'.metadata[u] = cache.metadata[u]

C23_RefetchOfEmptyRange ==
    /\ cache_out.op = "get_prices"
    /\ cache_out.symbols = <<SymA>>
    /\ cache_out.start = 1 /\ cache_out.end = 1
    /\ cache_out.fetched = Some(<<SymA>>)
    /\ SymA \in DOMAIN cache.metadata
    /\ cache.metadata[SymA].start_date = 1
    /\ cache.metadata[SymA].download_date = cache.now

\* a step of an operation of the cache
CacheStep == ops' = ops + 1 /\ cache_out'.op \in {"get_prices", "clear_cache"}

\* the path is <cache directory>/<symbol>.csv of a symbol of the pattern
PathOfValidSymbol(path) ==
    /\ Len(path) >= 2
    /\ path[Len(path)] = ".csv"
    /\ fullmatch(SubSeq(path, 1, Len(path) - 1))

\* the path is a file directly inside the cache directory
DirectlyInCacheDir(path) == \A i \in 1..Len(path) : path[i] # "/"

\* C24: no cache operation reads, writes or deletes a file for a symbol that
\* does not match [A-Z0-9][A-Z0-9.\-]{0,9}: every path an operation touches
\* is the file of a symbol of that pattern directly inside the cache
\* directory, and no such file exists afterwards.
C24_OnlyValidSymbolFiles ==
    [][CacheStep =>
         /\ \A path \in cache_out'.touched :
               PathOfValidSymbol(path) /\ DirectlyInCacheDir(path)
         /\ \A path \in DOMAIN cache'.files : PathOfValidSymbol(path)]_vars

\* every path touched is a file directly inside the cache directory
PathsStayInCacheDir ==
    [][CacheStep =>
         \A path \in cache_out'.touched \cup DOMAIN cache'.files :
            DirectlyInCacheDir(path)]_vars

\* a symbol that does not match the pattern at its first character, by a
\* directory separator or by its length touches no file
OtherPatternsRejected ==
    [][CacheStep =>
         \A path \in cache_out'.touched \cup DOMAIN cache'.files :
            \/ PathOfValidSymbol(path)
            \/ SubSeq(path, 1, Len(path) - 1) = SymNewline]_vars

\* the file of the symbol that ends with a newline was written
NewlineFileWritten == Append(SymNewline, ".csv") \in DOMAIN cache.files

\* C25 as stated: the exchange fee is added after the minimum is applied
C25_FeeAfterMinimum ==
    api.op = "calculate" =>
        api.result = RMin(RAdd(RMax(api.model.minimum,
                                    RMul(api.model.rate_per_share, RAbs(api.shares))),
                               RMul(api.model.exchange_fee, RAbs(api.shares))),
                          RMul(RMul(api.model.maximum_pct, RAbs(api.shares)), api.price))

\* C25: IBKRTieredCommission.calculate(s, p) equals
\* min(max(minimum, (rate_per_share + exchange_fee)*|s|), maximum_pct*|s|*p):
\* the minimum applies to the commission with the exchange fee included, and
\* the percentage cap applies last, so it can yield a fee below the minimum.
C25_IbkrCommission ==
    api.op = "calculate" =>
        api.result = RMin(RMax(api.model.minimum,
                               RMul(RAdd(api.model.rate_per_share, api.model.exchange_fee),
                                    RAbs(api.shares))),
                          RMul(RMul(api.model.maximum_pct, RAbs(api.shares)), api.price))

\* the test's case: 1 share at 10 with the default fields costs 0.10, below
\* the minimum of 0.35
C25_Witness ==
    /\ api.op = "calculate"
    /\ api.shares = Float(1) /\ api.price = Float(10)
    /\ api.model.minimum = Q(35, 100)
    /\ api.result = Q(1, 10)
    /\ RLt(api.result, api.model.minimum)

\* sum of signed_shares * price over the trades
SignedNotional(ts) ==
    RSum([i \in DOMAIN ts |-> RMul(signed_shares(ts[i]), ts[i].price)], DOMAIN ts)

\* the items of the weights whose trade is smaller than 0.01 shares
SkippedItems ==
    {i \in DOMAIN api.signal.weights :
        RLt(RAbs(RDiv(RMul(equity(api.before), api.signal.weights[i][2]),
                      api.prices[api.signal.weights[i][1]])),
            Q(1, 100))}

\* C26: for a WeightSignal executed on a portfolio that holds no positions,
\* the sum of signed_shares*price over the emitted trades equals the equity
\* before execution times the sum of the weights, the weights of the items
\* skipped for being smaller than 0.01 shares left out.
C26_SignedNotional ==
    (/\ api.op = "execute_weight_signal"
     /\ api.raised = None
     /\ DOMAIN api.before.positions = {}) =>
        /\ SignedNotional(api.trades) =
              RMul(equity(api.before),
                   RSum([i \in DOMAIN api.signal.weights |-> api.signal.weights[i][2]],
                        DOMAIN api.signal.weights \ SkippedItems))
        /\ Len(api.trades) = Cardinality(DOMAIN api.signal.weights \ SkippedItems)

\* a WeightSignal executed on a portfolio without positions: one item became
\* a trade at a price other than 1, one item was skipped
C26_Witness ==
    /\ api.op = "execute_weight_signal"
    /\ api.raised = None
    /\ DOMAIN api.before.positions = {}
    /\ Len(api.signal.weights) = 2
    /\ Len(api.trades) = 1
    /\ api.trades[1].price # Float(1)
    /\ Cardinality(SkippedItems) = 1

\* the running maximum of the curve of the last call at point i
PeakAt(i) ==
    CHOOSE x \in {api.equity_values[k] : k \in 1..i} :
        \A k \in 1..i : RLe(api.equity_values[k], x)

\* the equity at point i is below the running maximum
BelowPeak(i) == RLt(api.equity_values[i], PeakAt(i))

\* the points at which a drawdown starts: the first point below a peak
DrawdownStarts ==
    {i \in 2..Len(api.equity_values) : BelowPeak(i) /\ ~BelowPeak(i - 1)}

\* the first point after i with the peak regained, or the last point
DrawdownEnd(i) ==
    IF \E j \in i + 1..Len(api.equity_values) : ~BelowPeak(j)
    THEN CHOOSE j \in i + 1..Len(api.equity_values) :
            ~BelowPeak(j) /\ \A k \in i + 1..j - 1 : BelowPeak(k)
    ELSE Len(api.equity_values)

\* C27 as stated: the duration is counted from the bar of the peak
C27_DurationFromPeak ==
    api.op = "calculate_drawdown" =>
        api.max_dd_duration =
            MaxOf({0} \cup {api.dates[DrawdownEnd(i)] - api.dates[i - 1] : i \in DrawdownStarts})

\* C27: the reported max drawdown duration equals the largest number of
\* calendar days from the first bar whose equity is below the running peak to
\* the first later bar whose equity is equal to or higher than that peak, or
\* to the last date of the curve when the peak is never regained; it is 0
\* for a curve without a drawdown or with fewer than 2 points.
C27_DurationFromFirstBarBelow ==
    api.op = "calculate_drawdown" =>
        api.max_dd_duration =
            MaxOf({0} \cup {api.dates[DrawdownEnd(i)] - api.dates[i] : i \in DrawdownStarts})

\* a curve with a drawdown that is regained and a later, longer one that is
\* not: the duration runs to the last date
C27_Witness ==
    /\ api.op = "calculate_drawdown"
    /\ api.equity_values = <<Float(2), Float(1), Float(3), Float(1)>>
    /\ api.dates = <<1, 4, 9, 16>>
    /\ api.max_dd_duration = 5

\* a curve whose last drawdown is the longest
C27_OpenDrawdown ==
    /\ api.op = "calculate_drawdown"
    /\ api.equity_values = <<Float(3), Float(3), Float(2), Float(1)>>
    /\ api.dates = <<1, 2, 3, 4>>
    /\ api.max_dd_duration = 1

\* the position with its current_price taken from the prices, if it is there
Repriced(position, px) ==
    IF position.symbol \in DOMAIN px
    THEN [position EXCEPT !.current_price = px[position.symbol]]
    ELSE position

\* the last call of update_prices changed nothing but positions and legs
OnlyPositionsChanged ==
    /\ DOMAIN api.after.positions = DOMAIN api.before.positions
    /\ DOMAIN api.after.pair_positions = DOMAIN api.before.pair_positions
    /\ api.after = [api.before EXCEPT !.positions = api.after.positions,
                                      !.pair_positions = api.after.pair_positions]

\* C28: update_prices(m) sets current_price to m[s] on every held Position
\* whose symbol s is in m, including each leg of every open pair, and changes
\* nothing else; update_prices({}) and prices for symbols that are not held
\* change nothing.
C28_EveryHeldPositionUpdated ==
    api.op = "update_prices" =>
        /\ OnlyPositionsChanged
        /\ \A s \in DOMAIN api.before.positions :
              api.after.positions[s] = Repriced(api.before.positions[s], api.prices)
        /\ \A i \in DOMAIN api.before.pair_positions :
              api.after.pair_positions[i] =
                 [api.before.pair_positions[i] EXCEPT
                    !.long_position = Repriced(@, api.prices),
                    !.short_position = Repriced(@, api.prices)]

\* the same for the calls whose prices hold both legs or no leg of each pair
UpdatedWhenBothLegsPriced ==
    (/\ api.op = "update_prices"
     /\ \A i \in DOMAIN api.before.pair_positions :
           (api.before.pair_positions[i].long_position.symbol \in DOMAIN api.prices)
             = (api.before.pair_positions[i].short_position.symbol \in DOMAIN api.prices)) =>
        /\ OnlyPositionsChanged
        /\ \A s \in DOMAIN api.before.positions :
              api.after.positions[s] = Repriced(api.before.positions[s], api.prices)
        /\ \A i \in DOMAIN api.before.pair_positions :
              api.after.pair_positions[i] =
                 [api.before.pair_positions[i] EXCEPT
                    !.long_position = Repriced(@, api.prices),
                    !.short_position = Repriced(@, api.prices)]

\* update_prices was called with the price of one leg of an open pair only
OneLegPriced ==
    /\ api.op = "update_prices"
    /\ \E i \in DOMAIN api.before.pair_positions :
          /\ api.before.pair_positions[i].long_position.symbol \in DOMAIN api.prices
          /\ api.before.pair_positions[i].short_position.symbol \notin DOMAIN api.prices
          /\ api.after.pair_positions[i] = api.before.pair_positions[i]

SameDirection(x, y) ==
    (RGt(x, Zero) /\ RGt(y, Zero)) \/ (RLt(x, Zero) /\ RLt(y, Zero))

\* C29: Position.add_shares(s, price) follows the rule table for every prior
\* state and every s # 0: opening from flat sets avg to price; a
\* same-direction add takes the share-weighted average; an opposite-direction
\* fill realises closed_shares*(price - avg) for a long and
\* closed_shares*(avg - price) for a short; a flip leaves the remainder with
\* avg = price; a return to exactly 0 shares sets avg_entry_price to 0.
C29_AddSharesRules ==
    api.op = "add_shares" =>
        LET before == api.before
            after == api.after
            closed == RMin(RAbs(api.shares), RAbs(before.shares))
        IN  /\ after.shares = RAdd(before.shares, api.shares)
            /\ after.symbol = before.symbol
            /\ after.current_price = before.current_price
            /\ after.realized_pnl = RAdd(before.realized_pnl, api.realized)
            /\ before.shares = Zero =>
                  after.avg_entry_price = api.price /\ api.realized = Zero
            /\ SameDirection(before.shares, api.shares) =>
                  /\ after.avg_entry_price =
                        RDiv(RAdd(RMul(RAbs(before.shares), before.avg_entry_price),
                                  RMul(RAbs(api.shares), api.price)),
                             RAdd(RAbs(before.shares), RAbs(api.shares)))
                  /\ api.realized = Zero
            /\ (before.shares # Zero /\ ~SameDirection(before.shares, api.shares)) =>
                  /\ api.realized =
                        IF RGt(before.shares, Zero)
                        THEN RMul(closed, RSub(api.price, before.avg_entry_price))
                        ELSE RMul(closed, RSub(before.avg_entry_price, api.price))
                  /\ after.avg_entry_price =
                        IF RGt(RAbs(api.shares), RAbs(before.shares)) THEN api.price
                        ELSE IF after.shares = Zero THEN Zero
                        ELSE before.avg_entry_price

\* a short position was bought back beyond flat: the remainder is long at
\* the price of the fill, with the loss of the short realised
C29_Witness ==
    /\ api.op = "add_shares"
    /\ api.before.shares = Float(-2) /\ api.shares = Float(3)
    /\ api.price = Float(5)
    /\ api.after.shares = Float(1)
    /\ api.after.avg_entry_price = Float(5)
    /\ api.realized = Float(-2)

\* a long position was sold to exactly 0 shares
C29_ReturnToFlat ==
    /\ api.op = "add_shares"
    /\ api.before.shares = Float(2) /\ api.shares = Float(-2)
    /\ api.price = Float(5)
    /\ api.after.shares = Zero
    /\ api.after.avg_entry_price = Zero
    /\ api.realized = Float(6)

\* the pair_ids the strategy holds as active
ActiveIds == {strategy.active_positions[i].pair_id : i \in 1..Len(strategy.active_positions)}

\* the signals of each pair_id alternate, the first being an OPEN
Alternates(es) ==
    \A k \in 1..Len(es) :
        IF \E l \in 1..k - 1 : es[l].signal.pair_id = es[k].signal.pair_id
        THEN IsOpen(es[k]) #
             IsOpen(es[MaxOf({l \in 1..k - 1 :
                                es[l].signal.pair_id = es[k].signal.pair_id})])
        ELSE IsOpen(es[k])

\* C30: under the runner the distance strategy never emits OPEN for a
\* pair_id it currently holds as active and never emits CLOSE for a pair_id
\* that is not active, so for each pair_id the emitted signals strictly
\* alternate OPEN, CLOSE, OPEN, ...
C30_OpenCloseAlternate ==
    [][pc = "on_bar" =>
          /\ (signal'.kind = "pair" /\ signal'.signal_type = OPEN_PAIR) =>
                signal'.pair_id \notin ActiveIds
          /\ (signal'.kind = "pair" /\ signal'.signal_type = CLOSE_PAIR) =>
                signal'.pair_id \in ActiveIds
          /\ Alternates(emitted')]_vars

\* a pair was opened, closed, opened again and closed again in one run
C30_Witness ==
    \E k1, k2, k3, k4 \in 1..Len(emitted) :
        /\ k1 < k2 /\ k2 < k3 /\ k3 < k4
        /\ IsOpen(emitted[k1]) /\ IsClose(emitted[k2])
        /\ IsOpen(emitted[k3]) /\ IsClose(emitted[k4])
        /\ \A k \in {k2, k3, k4} :
              emitted[k].signal.pair_id = emitted[k1].signal.pair_id

\* the indices of the OPENs of the pair_id among the signals es
OpensOf(es, pair_id) ==
    {k \in 1..Len(es) : IsOpen(es[k]) /\ es[k].signal.pair_id = pair_id}

\* C31: after a pair has been closed the distance strategy can open it again,
\* and every new OPEN starts with days_held = 0: after each on_bar the
\* days_held of every active pair is the number of bars since its latest
\* OPEN, so its time stop is counted from that OPEN and never from an earlier
\* one.
C31_DaysHeldFromLatestOpen ==
    [][pc = "on_bar" =>
          \A i \in 1..Len(strategy'.active_positions) :
              /\ OpensOf(emitted', strategy'.active_positions[i].pair_id) # {}
              /\ strategy'.active_positions[i].days_held =
                    bar - emitted'[MaxOf(OpensOf(emitted',
                               strategy'.active_positions[i].pair_id))].bar
              /\ strategy'.active_positions[i].entry_date =
                    trading_dates[emitted'[MaxOf(OpensOf(emitted',
                               strategy'.active_positions[i].pair_id))].bar]]_vars

\* a pair that was opened and closed before has just been opened again: its
\* state starts with days_held = 0 on the bar of the second OPEN
C31_Witness ==
    /\ pc = "execute"
    /\ signal.kind = "pair"
    /\ signal.signal_type = OPEN_PAIR
    /\ Cardinality(OpensOf(emitted, signal.pair_id)) = 2
    /\ \E i \in 1..Len(strategy.active_positions) :
          /\ strategy.active_positions[i].pair_id = signal.pair_id
          /\ strategy.active_positions[i].days_held = 0
          /\ strategy.active_positions[i].entry_date = current_date

\* the shares of a symbol a pair is left with after its trades: bought minus
\* sold
NetShares(log, pair_id, symbol) ==
    RSum([i \in 1..Len(log) |->
             IF log[i].side = LONG THEN log[i].shares ELSE RNeg(log[i].shares)],
         {i \in 1..Len(log) : log[i].pair_id = pair_id /\ log[i].symbol = symbol})

LegsFlat(log, rt) ==
    /\ NetShares(log, rt.pair_id, rt.long_symbol) = Zero
    /\ NetShares(log, rt.pair_id, rt.short_symbol) = Zero

\* the pair has been opened again after a close
OpenedAgain(log, pair_id) ==
    \E i, j \in 1..Len(log) :
        /\ i < j
        /\ log[i].pair_id = pair_id /\ log[j].pair_id = pair_id
        /\ log[i].symbol = log[j].symbol
        /\ log[i].date < log[j].date
        /\ \E k \in 1..Len(log) :
              /\ log[k].pair_id = pair_id /\ log[k].symbol = log[i].symbol
              /\ log[k].side # log[i].side /\ log[j].side = log[i].side
              /\ log[i].date < log[k].date /\ log[k].date < log[j].date

\* C32: a RoundTrip with is_open = false is emitted only for a pair whose two
\* legs both net to zero shares at the end of the replay; a pair with a leg
\* still open is emitted only when include_open is true and final prices are
\* available for it, and then with is_open = true.
C32_ClosedOnlyWhenFlat ==
    api.op = "match_round_trips" =>
        \A i \in 1..Len(api.round_trips) :
            /\ ~api.round_trips[i].is_open => LegsFlat(api.log, api.round_trips[i])
            /\ ~LegsFlat(api.log, api.round_trips[i]) =>
                  /\ api.include_open
                  /\ {api.round_trips[i].long_symbol,
                      api.round_trips[i].short_symbol} \subseteq DOMAIN api.final_prices
                  /\ api.round_trips[i].is_open

\* for a pair never opened again, and final prices that are empty or hold
\* both symbols of the pair, the statement of C32 holds
ClosedOnlyWhenFlatOpenedOnce ==
    api.op = "match_round_trips" =>
        \A i \in 1..Len(api.round_trips) :
            (/\ ~OpenedAgain(api.log, api.round_trips[i].pair_id)
             /\ \/ DOMAIN api.final_prices = {}
                \/ {api.round_trips[i].long_symbol,
                    api.round_trips[i].short_symbol} \subseteq DOMAIN api.final_prices) =>
                /\ ~api.round_trips[i].is_open => LegsFlat(api.log, api.round_trips[i])
                /\ ~LegsFlat(api.log, api.round_trips[i]) =>
                      api.include_open /\ api.round_trips[i].is_open

\* a pair opened again and still open is reported as closed
ReopenedReportedClosed ==
    /\ api.op = "match_round_trips"
    /\ \E i \in 1..Len(api.round_trips) :
          /\ ~api.round_trips[i].is_open
          /\ ~LegsFlat(api.log, api.round_trips[i])

\* an open pair is reported although final_prices holds no price of its legs
OpenReportedWithoutPrices ==
    /\ api.op = "match_round_trips"
    /\ \E i \in 1..Len(api.round_trips) :
          /\ api.round_trips[i].is_open
          /\ {api.round_trips[i].long_symbol, api.round_trips[i].short_symbol}
                \cap DOMAIN api.final_prices = {}

\* C33: DollarNeutralConstraint.adjust on a WeightSignal either raises
\* ConstraintViolationError or returns a signal that validate accepts: the
\* totals of its long and of its short weights are equal within the
\* tolerance.
C33_AdjustedIsNeutral ==
    api.op = "adjust" =>
        \/ api.raised = "ConstraintViolationError"
        \/ /\ api.raised = None
           /\ dollar_neutral_validate(api.constraint, api.returned)
           /\ RLe(RAbs(RSub(long_sum(api.returned.weights),
                            short_sum(api.returned.weights))),
                  api.constraint.tolerance)

\* the statement holds for a signal with weights of both signs
AdjustedIsNeutralBothSigns ==
    (/\ api.op = "adjust"
     /\ long_sum(api.signal.weights) # Zero
     /\ short_sum(api.signal.weights) # Zero) =>
        \/ api.raised = "ConstraintViolationError"
        \/ /\ api.raised = None
           /\ dollar_neutral_validate(api.constraint, api.returned)
           /\ (~dollar_neutral_validate(api.constraint, api.signal) =>
                  long_sum(api.returned.weights) = short_sum(api.returned.weights))

\* weights of one sign come back unchanged from an auto-adjusting constraint
OneSidedReturnedUnchanged ==
    /\ api.op = "adjust"
    /\ api.constraint.auto_adjust
    /\ api.raised = None
    /\ api.returned = api.signal
    /\ ~dollar_neutral_validate(api.constraint, api.returned)

\* weights of both signs are scaled to equal totals
ScaledToNeutral ==
    /\ api.op = "adjust"
    /\ api.raised = None
    /\ api.returned # api.signal
    /\ long_sum(api.returned.weights) = short_sum(api.returned.weights)

\* the last point of the run of points below the peak that starts at i
LastBelow(i) ==
    CHOOSE j \in i..Len(api.equity_values) :
        /\ \A k \in i..j : BelowPeak(k)
        /\ j = Len(api.equity_values) \/ ~BelowPeak(j + 1)

\* the start of the k-th run of points below the peak
NthStart(k) ==
    CHOOSE i \in DrawdownStarts :
        Cardinality({s \in DrawdownStarts : s <= i}) = k

\* the lowest equity of the run that starts at i
LowestOfRun(i) ==
    CHOOSE x \in {api.equity_values[k] : k \in i..LastBelow(i)} :
        \A k \in i..LastBelow(i) : RLe(x, api.equity_values[k])

\* one period for each maximal run of points below the running maximum,
\* starting where the run starts
OnePeriodPerRun ==
    /\ Len(api.periods) = Cardinality(DrawdownStarts)
    /\ \A k \in 1..Len(api.periods) :
          /\ api.periods[k].start_date = api.dates[NthStart(k)]
          /\ api.periods[k].peak_equity = PeakAt(NthStart(k))
          /\ api.periods[k].recovery_date =
                IF LastBelow(NthStart(k)) = Len(api.equity_values) THEN Nothing
                ELSE Some(api.dates[LastBelow(NthStart(k)) + 1])

\* C34: analyze_drawdowns returns one period for each maximal run of
\* consecutive bars whose equity is below the running maximum, and the trough
\* of each period is the lowest equity of the run, with a date of the run at
\* which the equity is that low.
C34_TroughIsLowestOfRun ==
    api.op = "analyze_drawdowns" =>
        /\ OnePeriodPerRun
        /\ \A k \in 1..Len(api.periods) :
              /\ api.periods[k].trough_equity = LowestOfRun(NthStart(k))
              /\ \E i \in NthStart(k)..LastBelow(NthStart(k)) :
                    /\ api.dates[i] = api.periods[k].trough_date
                    /\ api.equity_values[i] = api.periods[k].trough_equity

\* what holds: one period for each run
C34_OnePeriodPerRun ==
    api.op = "analyze_drawdowns" => OnePeriodPerRun

\* a period whose run has more than one bar
RunOfSeveralBars ==
    /\ api.op = "analyze_drawdowns"
    /\ \E k \in 1..Len(api.periods) : LastBelow(NthStart(k)) > NthStart(k)

\* the trough reported is not the lowest equity of the run
TroughNotLowest ==
    /\ api.op = "analyze_drawdowns"
    /\ \E k \in 1..Len(api.periods) :
          RGt(api.periods[k].trough_equity, LowestOfRun(NthStart(k)))

\* the trough reported is the bar of the recovery, above the peak
TroughAbovePeak ==
    /\ api.op = "analyze_drawdowns"
    /\ \E k \in 1..Len(api.periods) :
          RGt(api.periods[k].trough_equity, api.periods[k].peak_equity)

\* the trades applied to the portfolio by the step
NewlyApplied == SubSeq(applied', Len(applied) + 1, Len(applied'))

CommissionOf(ts) ==
    RSum([i \in 1..Len(ts) |-> ts[i].commission], 1..Len(ts))

\* C35: within a runner bar, executing a signal changes the equity of the
\* portfolio by exactly minus the sum of the commissions of the trades it
\* applied.
C35_ExecutionCostsCommission ==
    [][pc = "execute" =>
          equity(portfolio') = RSub(equity(portfolio), CommissionOf(NewlyApplied))]_vars

\* a signal has been executed with trades that paid a commission
C35_Witness ==
    /\ pc \in {"fill", "record_equity"}
    /\ trades # <<>>
    /\ RGt(CommissionOf(trades), Zero)

\* the signal opens a pair the portfolio already holds
OpensHeldPair ==
    /\ signal.kind = "pair"
    /\ signal.signal_type = OPEN_PAIR
    /\ get_pair_id(signal) \in DOMAIN portfolio.pair_positions

\* the signal closes a held pair under other symbols than those of its legs
ClosesUnderOtherSymbols ==
    /\ signal.kind = "pair"
    /\ signal.signal_type = CLOSE_PAIR
    /\ get_pair_id(signal) \in DOMAIN portfolio.pair_positions
    /\ \/ signal.long_symbol #
             portfolio.pair_positions[get_pair_id(signal)].long_position.symbol
       \/ signal.short_symbol #
             portfolio.pair_positions[get_pair_id(signal)].short_position.symbol

\* the statement of C35 holds for every other signal
ExecutionCostsCommissionElse ==
    [][(pc = "execute" /\ ~OpensHeldPair /\ ~ClosesUnderOtherSymbols) =>
          equity(portfolio') = RSub(equity(portfolio), CommissionOf(NewlyApplied))]_vars

\* a pair has been opened over a pair of the same pair_id
HeldPairOpenedAgain ==
    \E i, j \in 1..Len(applied) :
        /\ i + 2 <= j
        /\ applied[i].pair_id # None /\ applied[i].pair_id = applied[j].pair_id
        /\ applied[i].symbol = applied[j].symbol /\ applied[i].side = applied[j].side
        /\ \A k \in i + 1..j - 1 :
              applied[k].pair_id = applied[i].pair_id => applied[k].side = applied[i].side
                 \/ applied[k].symbol # applied[i].symbol

\* C36: under the runner, after every processed bar the set of pair_ids the
\* distance strategy holds as active equals the set of pair_ids in
\* portfolio.pair_positions.
C36_ActiveMatchesPortfolio ==
    pc \in {"end_bar", "on_end", "done"} =>
        ActiveIds = DOMAIN portfolio.pair_positions

\* a bar has been processed on which a pair was closed while another pair
\* stays open
C36_Witness ==
    /\ pc = "end_bar"
    /\ signal.kind = "pair" /\ signal.signal_type = CLOSE_PAIR
    /\ DOMAIN portfolio.pair_positions # {}
    /\ ActiveIds = DOMAIN portfolio.pair_positions

\* C37: at every point where a run stops, normally or by an exception, the
\* trades applied to the portfolio are the trades of the trade log and the
\* trades passed to on_fill, also after a weight signal that failed on a
\* later symbol.
C37_AppliedAreLoggedAtStop ==
    pc \in {"done", "failed"} =>
        /\ applied = trade_log
        /\ applied = fills

\* the statement of C37 holds for the runs that end normally
AppliedAreLoggedWhenDone ==
    pc = "done" => applied = trade_log /\ applied = fills

\* the run stopped by a weight signal that failed after a symbol was traded:
\* the trade applied is neither logged nor passed to on_fill
WeightSignalFailedMidway ==
    /\ pc = "failed"
    /\ signal.kind = "weight"
    /\ Len(applied) > Len(trade_log)
    /\ Len(applied) > Len(fills)

\* the run stopped by on_fill raising on the first trade of a pair: the
\* second trade is applied and not logged
OnFillFailedMidway ==
    /\ pc = "failed"
    /\ error.cause = "on_fill"
    /\ Len(applied) > Len(trade_log)

\* C38: the cash of a portfolio created with positive initial capital is
\* never negative after execute_trade, open_pair and close_pair.
C38_CashNeverNegative ==
    RGe(portfolio.cash, Zero)

\* cash is not negative after execute_trade and open_pair
CashNotNegativeAfterOpening ==
    [][api'.op \in {"execute_trade", "open_pair"} /\ RGe(portfolio.cash, Zero) =>
          RGe(portfolio'.cash, Zero)]_vars

\* close_pair has left the cash negative
NegativeCashAfterClose ==
    /\ api.op = "close_pair"
    /\ api.raised = None
    /\ RLt(portfolio.cash, Zero)

\* C39: the rows get_prices returns hold the prices of the adjusted setting
\* of the call, whether they are read from the cache or fetched: a cache hit
\* never returns rows that were fetched under the other setting.
C39_RowsOfRequestedSetting ==
    (cache_out.op = "get_prices" /\ cache_out.raised = None) =>
        \A s \in DOMAIN cache_out.row_prices :
            cache_out.row_prices[s] \in {<<>>, <<cache_out.adjusted>>}

\* the rows fetched from the provider hold the prices of the setting of the
\* call
FetchedRowsOfRequestedSetting ==
    (cache_out.op = "get_prices" /\ cache_out.raised = None
     /\ cache_out.fetched # Nothing) =>
        \A i \in DOMAIN cache_out.fetched[1] :
            cache_out.row_prices[cache_out.fetched[1][i]] \in {<<>>, <<cache_out.adjusted>>}

\* a cache hit has returned rows fetched under the other adjusted setting
HitOfOtherSetting ==
    /\ cache_out.op = "get_prices"
    /\ cache_out.raised = None
    /\ \E i \in DOMAIN cache_out.served :
          cache_out.row_prices[cache_out.served[i]] = <<~cache_out.adjusted>>

====
